---- MODULE Spec2Model ----
(***************************************************************************)
(* photolookup: the index store (build / update / lookup / save / load),   *)
(* the index builder and the build coordinator, as state machines.         *)
(*                                                                         *)
(* Two deployments share the store:                                        *)
(*   "server"  server/main.py: the coordinator starts one background      *)
(*             thread per accepted start_build; the thread calls the store *)
(*   "script"  scripts/test_parallel_index.py and library users: the       *)
(*             caller's own thread ("main") calls the store directly       *)
(*                                                                         *)
(* Optional values (Python None) are sequences of length 0 or 1.           *)
(***************************************************************************)
EXTENDS Integers, Sequences, FiniteSets, TLC

(***************************************************************************)
(* Bounds of the model.                                                    *)
(***************************************************************************)
\* store operations (build/update calls) the direct caller makes in one run
MaxOps == 2
\* files created or deleted in the library in one run
MaxFsChanges == 2
\* start_build calls in one run (each creates one Thread object)
MaxBuilds == 3
\* largest top_k a lookup is asked for
MaxTopK == 4
\* lookup requests served in one run
MaxLookups == 1
\* status requests served in one run
MaxPolls == 2
\* longest batch handed to _process_image_batch on its own
MaxBatchLen == 3
\* longest time, in ticks, that a run follows a blocked build_index_parallel
MaxWait == 3
\* get_image requests and get_index calls served in one run
MaxFetches == 1
\* longest side, in pixels, of an image given to detect_main_image
MaxSide == 14
\* most processors of the host, and largest worker count asked for
MaxCpus == 8
MaxWorkersAsked == 10
MaxBoxCoord == 3
MaxSplitLen == 5
MaxBatchSize == 3

(***************************************************************************)
(* The library on disk.  "lib" holds a, b, c and the directory "lib/sub",  *)
(* which holds d; configuring both "lib" and "lib/sub" makes the walk meet *)
(* d twice.                                                                *)
(***************************************************************************)
Paths == {"lib/a.jpg", "lib/b.jpg", "lib/c.jpg", "lib/sub/d.jpg"}

\* os.walk(dir): the files below a directory, in listing order (top-down)
Listing(dir) ==
    IF dir = "lib" THEN <<"lib/a.jpg", "lib/b.jpg", "lib/c.jpg", "lib/sub/d.jpg">>
    ELSE IF dir = "lib/sub" THEN <<"lib/sub/d.jpg">>
    ELSE <<>>

None == <<>>
Some(x) == <<x>>

RECURSIVE Flatten(_)
Flatten(ss) == IF ss = <<>> THEN <<>> ELSE Head(ss) \o Flatten(Tail(ss))

Range(s) == {s[i] : i \in DOMAIN s}

\* _iter_image_files: every configured directory walked in turn; a path
\* below two configured directories is yielded twice
IterImageFiles(dirs, existing) ==
    Flatten([i \in DOMAIN dirs |->
                SelectSeq(Listing(dirs[i]), LAMBDA p : p \in existing)])

\* hashlib.sha256(path).hexdigest(), by its first two hex digits (the real
\* digests of the four paths: d519.., c638.., 4f2a.., a9b7..)
ImageId(path) ==
    CASE path = "lib/a.jpg" -> "d5"
      [] path = "lib/b.jpg" -> "c6"
      [] path = "lib/c.jpg" -> "4f"
      [] path = "lib/sub/d.jpg" -> "a9"

\* position of an id in sorted key order (json.dump(..., sort_keys=True))
IdRank(id) ==
    CASE id = "4f" -> 1
      [] id = "a9" -> 2
      [] id = "c6" -> 3
      [] id = "d5" -> 4

(***************************************************************************)
(* Hashing capability (server/hasher.py, server/phash_engine.py).  The     *)
(* perceptual hash is a bit string of HASH_SIZE * HASH_SIZE bits in the    *)
(* code; here it has HashBits bits and is written as the number whose      *)
(* binary digits they are.                                                 *)
(***************************************************************************)
HashBits == 2

Hashes == 0 .. (2 ^ HashBits - 1)

\* phash_engine.create_hash of the picture stored at a path: a.jpg and b.jpg
\* hold the same picture, c.jpg and d.jpg differ from it in one and two bits
CreateHash(path) ==
    CASE path = "lib/a.jpg" -> 0
      [] path = "lib/b.jpg" -> 0
      [] path = "lib/c.jpg" -> 1
      [] path = "lib/sub/d.jpg" -> 3

Bit(h, i) == (h \div (2 ^ i)) % 2

RECURSIVE DiffBits(_, _, _)
DiffBits(ha, hb, n) ==
    IF n = 0 THEN 0
    ELSE (IF Bit(ha, n - 1) # Bit(hb, n - 1) THEN 1 ELSE 0) + DiffBits(ha, hb, n - 1)

\* phash_engine.compute_distance: PHash's Hamming distance.  The code divides
\* the count of differing bits by the hash length, a constant, so the order
\* of distances is that of the counts; the model keeps the count.
ComputeDistance(hash_a, hash_b) == DiffBits(hash_a, hash_b, HashBits)

\* phash_engine.get_hash_meta
HashMeta == [type |-> "phash", version |-> 1, hash_size |-> 16, hash_format |-> "hex"]

(***************************************************************************)
(* Index builder (server/index_builder.py).                                *)
(***************************************************************************)
\* files per batch: 20 in the code, scaled so that the library spans batches
BATCH_SIZE == 2

\* image_utils.load_image / hasher.hash_image raise for a missing or an
\* undecodable file; the exception's name stands for its message
LoadError(path, existing, corrupt) ==
    IF path \notin existing THEN Some("FileNotFoundError")
    ELSE IF path \in corrupt THEN Some("UnidentifiedImageError")
    ELSE None

\* an entry whose id is taken from the picture: two files that hold the same
\* picture get one id
EntryOfKeyedByContent(path) ==
    [image_id |-> ImageId(CHOOSE q \in Paths : CreateHash(q) = CreateHash(path)),
     path |-> path, hash |-> CreateHash(path)]

\* the entry of a file that hashes: image_id is sha256 of the path string
EntryOf(path) == [image_id |-> ImageId(path), path |-> path, hash |-> CreateHash(path)]

\* the loop ends at the first file that fails
RECURSIVE ProcessImageBatchAborts(_, _, _)
ProcessImageBatchAborts(paths, existing, corrupt) ==
    IF paths = <<>> THEN [results |-> <<>>, errors |-> <<>>]
    ELSE LET path == Head(paths)
             err == LoadError(path, existing, corrupt)
         IN  IF err = None
             THEN LET rest == ProcessImageBatchAborts(Tail(paths), existing, corrupt)
                  IN  [results |-> <<EntryOf(path)>> \o rest.results,
                       errors |-> rest.errors]
             ELSE [results |-> <<>>,
                   errors |-> <<[path |-> path, message |-> err[1]]>>]

\* _process_image_batch: one record per file that hashes, one error string
\* "path: message" per file that does not
RECURSIVE ProcessImageBatch(_, _, _)
ProcessImageBatch(paths, existing, corrupt) ==
    IF paths = <<>> THEN [results |-> <<>>, errors |-> <<>>]
    ELSE LET path == Head(paths)
             rest == ProcessImageBatch(Tail(paths), existing, corrupt)
             err == LoadError(path, existing, corrupt)
         IN  IF err = None
             THEN [results |-> <<EntryOf(path)>> \o rest.results,
                   errors |-> rest.errors]
             ELSE [results |-> rest.results,
                   errors |-> <<[path |-> path, message |-> err[1]]>> \o rest.errors]

\* the last batch, when it is not full, is not yielded
RECURSIVE IterBatchesFromDropsTail(_, _, _)
IterBatchesFromDropsTail(paths, batch_size, batch) ==
    IF paths = <<>> THEN <<>>
    ELSE LET grown == Append(batch, Head(paths))
         IN  IF Len(grown) >= batch_size
             THEN <<grown>> \o IterBatchesFromDropsTail(Tail(paths), batch_size, <<>>)
             ELSE IterBatchesFromDropsTail(Tail(paths), batch_size, grown)

\* the loop of _iter_batches (lines 63-72) from a point where `batch` holds
\* the paths collected so far: each path is appended, a batch that has
\* reached batch_size is yielded, and what is left at the end is yielded
\* when it is not empty
RECURSIVE IterBatchesFrom(_, _, _)
IterBatchesFrom(paths, batch_size, batch) ==
    IF paths = <<>> THEN (IF batch # <<>> THEN <<batch>> ELSE <<>>)
    ELSE LET grown == Append(batch, Head(paths))
         IN  IF Len(grown) >= batch_size
             THEN <<grown>> \o IterBatchesFrom(Tail(paths), batch_size, <<>>)
             ELSE IterBatchesFrom(Tail(paths), batch_size, grown)

\* _iter_batches: the batches yielded, in order
IterBatches(paths, batch_size) == IterBatchesFrom(paths, batch_size, <<>>)

\* a list instead of a dict: every assignment adds an entry
DictSetAppends(items, entry) == Append(items, entry)

\* items[image_id] = {...} on a dict that keeps insertion order: a known key
\* keeps its place and takes the new value, a new key goes last
DictSet(items, entry) ==
    IF \E i \in DOMAIN items : items[i].image_id = entry.image_id
    THEN [i \in DOMAIN items |->
            IF items[i].image_id = entry.image_id THEN entry ELSE items[i]]
    ELSE Append(items, entry)

RECURSIVE DictUpdate(_, _)
DictUpdate(items, entries) ==
    IF entries = <<>> THEN items
    ELSE DictUpdate(DictSet(items, Head(entries)), Tail(entries))

\* the orders in which n submitted batches can complete (as_completed)
CompletionOrders(n) ==
    {o \in [1 .. n -> 1 .. n] : \A i, j \in 1 .. n : i # j => o[i] # o[j]}

\* build_index_parallel, its batches completing in the order given: results
\* are merged and errors appended batch by batch in completion order.  Worker
\* processes are taken not to die.
RECURSIVE CollectBatches(_, _, _, _, _)
CollectBatches(batches, order, k, existing, corrupt) ==
    IF k = 0 THEN [items |-> <<>>, errors |-> <<>>]
    ELSE LET before == CollectBatches(batches, order, k - 1, existing, corrupt)
             done == ProcessImageBatch(batches[order[k]], existing, corrupt)
         IN  [items |-> DictUpdate(before.items, done.results),
              errors |-> before.errors \o done.errors]

BuildIndexParallel(paths, order, existing, corrupt) ==
    LET batches == IterBatches(paths, BATCH_SIZE)
    IN  CollectBatches(batches, order, Len(batches), existing, corrupt)

BatchCount(paths) == Len(IterBatches(paths, BATCH_SIZE))

(***************************************************************************)
(* State.                                                                  *)
(***************************************************************************)
VARIABLES
    deployment,         \* "server" or "script"
    build_workers,      \* AppConfig.build_workers: 1 sequential, else parallel
    library_dirs,       \* AppConfig.image_library_dirs
    files,              \* the paths that exist in the library
    corrupt,            \* the paths whose content no decoder reads
    fs_changes,         \* files created or deleted so far
    disk,               \* the file at IndexStore._index_path
    meta,               \* IndexStore._meta
    items,              \* IndexStore._items, in dict iteration order
    op,                 \* per thread: the store call it is executing
    ops_called,         \* store calls the direct caller has made
    clock,              \* wall clock, read by datetime.now
    tasks,              \* the BuildProgress objects created so far
    current_task,       \* IndexBuilderCoordinator._current_task: the object it names
    task_lock,          \* IndexBuilderCoordinator._task_lock: holder or None
    background_thread,  \* IndexBuilderCoordinator._background_thread
    thr,                \* per Thread object: the position in _run_build_task
    last_call,          \* what the last start_build call gave its caller
    query,              \* the last lookup_matches call and its result
    reader,             \* a request running lookup_image (main.py)
    poll,               \* a request running index_status (main.py)
    batch,              \* the last _process_image_batch call and its result
    pp,                 \* a build_index_parallel call and its worker pool
    fetch,              \* a request running get_image (main.py), or a get_index call
    waiter,             \* the shutdown hook's wait_for_completion call
    det,                \* the last detect_main_image call and its outcome
    pool,               \* the last sizing of build_index_parallel's worker pool
    crop,               \* the last create_hash call on a region, and its outcome
    split               \* the last _iter_batches call and the batches it yielded

store_vars == <<disk, meta, items, op, ops_called>>
env_vars == <<deployment, build_workers, library_dirs, files, corrupt, fs_changes>>
coord_vars == <<tasks, current_task, task_lock, background_thread, thr, last_call>>
client_vars == <<query, reader, poll, batch, pp, fetch, waiter, det, pool, crop, split>>
vars == <<deployment, build_workers, library_dirs, files, corrupt, fs_changes,
          disk, meta, items, op, ops_called, clock,
          tasks, current_task, task_lock, background_thread, thr, last_call,
          query, reader, poll, batch, pp, fetch, waiter, det, pool, crop, split>>

\* the thread of a caller that uses the store directly
CallerThread == 0
Threads == 1 .. MaxBuilds
Executors == {CallerThread} \cup Threads

IdleOp == [pc |-> "idle", kind |-> "none", new_paths |-> <<>>, removed_paths |-> <<>>,
           errors |-> <<>>, exc |-> None, ret |-> None,
           \* for the properties: the library and the index the call started
           \* from, whether the except branch of lines 61-69 / 147-153 ran,
           \* and whether the call comes right after an update() that
           \* returned, with the same files in the library
           seen_files |-> {}, old_items |-> None, fell_back |-> FALSE,
           follows_update |-> FALSE]

\* the index file: absent, cut short (opened for writing and not yet fully
\* written, or left so by a failed write), or a complete JSON document, of
\* which `keys` are the top-level fields it has
AbsentFile == [state |-> "absent", keys |-> {}, meta |-> None, items |-> <<>>]
PartialFile == [state |-> "partial", keys |-> {}, meta |-> None, items |-> <<>>]

\* json.dump(payload, sort_keys=True): items in sorted key order
RECURSIVE SortKeys(_)
SortKeys(its) ==
    IF its = <<>> THEN <<>>
    ELSE LET least == CHOOSE i \in DOMAIN its :
                        \A j \in DOMAIN its : IdRank(its[i].image_id) <= IdRank(its[j].image_id)
         IN  <<its[least]>>
             \o SortKeys([k \in 1 .. Len(its) - 1 |-> IF k < least THEN its[k] ELSE its[k + 1]])

JsonDump(m, its) ==
    [state |-> "complete", keys |-> {"meta", "items"}, meta |-> m,
     items |-> SortKeys(IF its = None THEN <<>> ELSE its[1])]

\* IndexStore.is_loaded
IsLoaded == items # None /\ meta # None

\* IndexStore.get_count
GetCount == IF items # None THEN Len(items[1]) ELSE 0

Raise(e, name) == [op EXCEPT ![e].pc = "raised", ![e].exc = Some(name)]

(***************************************************************************)
(* Index store (server/index_store.py).  A call runs on one thread e and   *)
(* is a sequence of steps; each step is one of the call's reads or writes  *)
(* of the store's fields or of the index file.  The library does not       *)
(* change while a call runs (FsChange).                                    *)
(***************************************************************************)
\* a document written with "meta" null or absent loads as the empty dict
EmptyMeta == [hash |-> HashMeta, created_at |-> None, updated_at |-> None,
              operation |-> "", library_dirs |-> <<>>, errors |-> <<>>, stats |-> None]

\* updated_at taken from a second reading of the clock
BuildMetaTwoClocks(now, errors) ==
    [hash |-> HashMeta, created_at |-> Some(now), updated_at |-> Some(now + 1),
     operation |-> "build", library_dirs |-> library_dirs, errors |-> errors,
     stats |-> None]

\* build(), lines 77-85
BuildMeta(now, errors) ==
    [hash |-> HashMeta, created_at |-> Some(now), updated_at |-> Some(now),
     operation |-> "build", library_dirs |-> library_dirs, errors |-> errors,
     stats |-> None]

\* lines 166-180: "added" is len(new_paths), "removed" is len(removed_paths)
UpdateStats(new_paths, removed_paths, its) ==
    [added |-> Len(new_paths), removed |-> Len(removed_paths), total |-> Len(its)]

\* the importable names of server/index_builder.py
IndexBuilderNames == {"BATCH_SIZE", "_process_image_batch", "_iter_batches",
                      "build_index_parallel"}

\* from .index_builder import <name>
CanImport(name) == name \in IndexBuilderNames

\* build(), lines 41-42
BuildClear(e) ==
    /\ op[e].pc = "build"
    /\ meta' = None
    /\ items' = None
    /\ op' = [op EXCEPT ![e].pc = "b_hash"]
    /\ UNCHANGED <<env_vars, coord_vars, disk, ops_called, clock, client_vars>>

\* the branch of lines 51-69 / 135-153 that hashes `paths`: the outcome is an
\* exception name or the builder's (items, errors)
HashOutcomes(paths) ==
    LET parallel == {[exc |-> None, items |-> r.items, errors |-> r.errors,
                      fallback |-> FALSE] :
                       r \in {BuildIndexParallel(paths, o, files, corrupt) :
                                o \in CompletionOrders(BatchCount(paths))}}
        sequential == IF CanImport("build_index_sequential")
                      THEN {[exc |-> None, items |-> DictUpdate(<<>>, r.results),
                             errors |-> r.errors, fallback |-> build_workers # 1] :
                              r \in {ProcessImageBatch(paths, files, corrupt)}}
                      ELSE {[exc |-> Some("ImportError"), items |-> <<>>, errors |-> <<>>,
                             fallback |-> build_workers # 1]}
    IN  IF build_workers = 1 THEN sequential
        \* the worker pool either runs, or fails to start and the except
        \* branch falls back to the sequential builder
        ELSE parallel \cup sequential

\* build(), lines 48-88: discover, hash, then install meta and items
BuildHash(e) ==
    /\ op[e].pc = "b_hash"
    /\ \E out \in HashOutcomes(IterImageFiles(library_dirs, files)) :
          IF out.exc # None
          THEN /\ op' = [Raise(e, out.exc[1]) EXCEPT ![e].fell_back = out.fallback]
               /\ UNCHANGED <<meta, items, clock>>
          ELSE /\ meta' = Some(BuildMeta(clock, out.errors))
               /\ items' = Some(out.items)
               /\ clock' = clock + 1
               /\ op' = [op EXCEPT ![e].pc = "save", ![e].errors = out.errors,
                                   ![e].fell_back = out.fallback]
    /\ UNCHANGED <<env_vars, coord_vars, disk, ops_called, client_vars>>

\* _save(), lines 231-233: makedirs and open(path, "w"), which empties the file
SaveOpen(e) ==
    /\ op[e].pc = "save"
    /\ \E opened \in BOOLEAN :
          IF opened
          THEN /\ disk' = PartialFile
               /\ op' = [op EXCEPT ![e].pc = "save_write"]
          ELSE /\ op' = Raise(e, "OSError")
               /\ UNCHANGED disk
    /\ UNCHANGED <<env_vars, coord_vars, meta, items, ops_called, clock, client_vars>>

\* _save(), line 234: json.dump into the open file, then close
SaveWrite(e) ==
    /\ op[e].pc = "save_write"
    /\ \E written \in BOOLEAN :
          IF written
          THEN /\ disk' = JsonDump(meta, items)
               /\ op' = [op EXCEPT ![e].pc = "return"]
          ELSE /\ op' = Raise(e, "OSError")
               /\ UNCHANGED disk
    /\ UNCHANGED <<env_vars, coord_vars, meta, items, ops_called, clock, client_vars>>

\* return self.get_index()
ReturnIndex(e) ==
    /\ op[e].pc = "return"
    /\ op' = IF IsLoaded
             THEN [op EXCEPT ![e].pc = "returned",
                             ![e].ret = Some([meta |-> meta[1], items |-> items[1]])]
             ELSE Raise(e, "ValueError")
    /\ UNCHANGED <<env_vars, coord_vars, disk, meta, items, ops_called, clock, client_vars>>

\* payload.get("meta", {}), line 248: the document's "meta", the empty dict
\* when it has none; fields other than "meta" and "items" are not read
PayloadMeta(doc) ==
    IF "meta" \in doc.keys /\ doc.meta # None THEN doc.meta ELSE Some(EmptyMeta)

\* payload.get("items", {}), line 249
PayloadItems(doc) ==
    IF "items" \in doc.keys THEN Some(doc.items) ELSE Some(<<>>)

\* "meta" is not read from the document
LoadDropsMeta ==
    CASE disk.state = "absent" -> [exc |-> None, meta |-> meta, items |-> items]
      [] disk.state = "partial" ->
           [exc |-> Some("JSONDecodeError"), meta |-> meta, items |-> items]
      [] disk.state = "complete" ->
           [exc |-> None, meta |-> Some(EmptyMeta), items |-> PayloadItems(disk)]

\* a file that does not parse is taken for an empty index
LoadMasksCorrupt ==
    CASE disk.state = "absent" -> [exc |-> None, meta |-> meta, items |-> items]
      [] disk.state = "partial" -> [exc |-> None, meta |-> Some(EmptyMeta), items |-> Some(<<>>)]
      [] disk.state = "complete" ->
           [exc |-> None, meta |-> PayloadMeta(disk), items |-> PayloadItems(disk)]

\* _load(), lines 240-252: no file, nothing happens; json.load raises on a
\* file that is cut short, before either field is assigned; else both fields
\* are assigned from the document
Load ==
    CASE disk.state = "absent" -> [exc |-> None, meta |-> meta, items |-> items]
      [] disk.state = "partial" ->
           [exc |-> Some("JSONDecodeError"), meta |-> meta, items |-> items]
      [] disk.state = "complete" ->
           [exc |-> None, meta |-> PayloadMeta(disk), items |-> PayloadItems(disk)]

\* an update() that finds no index starts from an empty one
UpdateInitSkipsBuild(e) ==
    /\ op[e].pc \in {"init", "update"}
    /\ LET loaded == IF items = None THEN Load
                     ELSE [exc |-> None, meta |-> meta, items |-> items]
       IN  IF loaded.exc # None
           THEN /\ op' = Raise(e, loaded.exc[1])
                /\ UNCHANGED <<meta, items>>
           ELSE IF op[e].kind = "init"
           THEN /\ meta' = loaded.meta
                /\ items' = loaded.items
                /\ op' = [op EXCEPT ![e].pc = "returned"]
           ELSE /\ meta' = IF loaded.meta = None THEN Some(EmptyMeta) ELSE loaded.meta
                /\ items' = IF loaded.items = None THEN Some(<<>>) ELSE loaded.items
                /\ op' = [op EXCEPT ![e].pc = "u_prune", ![e].old_items = loaded.items]
    /\ UNCHANGED <<env_vars, coord_vars, disk, ops_called, clock, client_vars>>

\* init(), lines 31-33, on its own (the server's startup, main.py line 84)
\* or as the first step of update(), lines 99-104: the index file is loaded
\* when nothing is in memory; an update() without an index becomes build()
UpdateInit(e) ==
    /\ op[e].pc \in {"init", "update"}
    /\ LET loaded == IF items = None THEN Load
                     ELSE [exc |-> None, meta |-> meta, items |-> items]
       IN  IF loaded.exc # None
           THEN /\ op' = Raise(e, loaded.exc[1])
                /\ UNCHANGED <<meta, items>>
           ELSE /\ meta' = loaded.meta
                /\ items' = loaded.items
                /\ op' = IF op[e].kind = "init"
                         THEN [op EXCEPT ![e].pc = "returned"]
                         ELSE IF loaded.items # None /\ loaded.meta # None
                         THEN [op EXCEPT ![e].pc = "u_prune", ![e].old_items = loaded.items]
                         ELSE [op EXCEPT ![e].pc = "build"]
    /\ UNCHANGED <<env_vars, coord_vars, disk, ops_called, clock, client_vars>>

\* update(), lines 108-129: drop the entries whose file is gone, in place,
\* then list the discovered paths that no remaining entry has
UpdatePrune(e) ==
    /\ op[e].pc = "u_prune"
    /\ IF items = None
       THEN /\ op' = Raise(e, "TypeError")
            /\ UNCHANGED items
       ELSE LET kept == SelectSeq(items[1], LAMBDA it : it.path \in files)
                gone == SelectSeq(items[1], LAMBDA it : it.path \notin files)
                existing_paths == {kept[i].path : i \in DOMAIN kept}
                new_paths == SelectSeq(IterImageFiles(library_dirs, files),
                                       LAMBDA p : p \notin existing_paths)
            IN  /\ items' = Some(kept)
                /\ op' = [op EXCEPT ![e].pc = IF new_paths # <<>> THEN "u_hash" ELSE "u_meta",
                                    ![e].removed_paths = [i \in DOMAIN gone |-> gone[i].path],
                                    ![e].new_paths = new_paths,
                                    ![e].errors = <<>>]
    /\ UNCHANGED <<env_vars, coord_vars, disk, meta, ops_called, clock, client_vars>>

\* update(), lines 131-156: hash the new paths and merge them into the index
UpdateHash(e) ==
    /\ op[e].pc = "u_hash"
    /\ \E out \in HashOutcomes(op[e].new_paths) :
          IF out.exc # None
          THEN /\ op' = [Raise(e, out.exc[1]) EXCEPT ![e].fell_back = out.fallback]
               /\ UNCHANGED items
          ELSE IF items = None
          THEN /\ op' = Raise(e, "AttributeError")
               /\ UNCHANGED items
          ELSE /\ items' = Some(DictUpdate(items[1], out.items))
               /\ op' = [op EXCEPT ![e].pc = "u_meta", ![e].errors = out.errors,
                                   ![e].fell_back = out.fallback]
    /\ UNCHANGED <<env_vars, coord_vars, disk, meta, ops_called, clock, client_vars>>

\* created_at is taken anew at every update
UpdateMetaResetsCreatedAt(e) ==
    /\ op[e].pc = "u_meta"
    /\ IF items = None
       THEN /\ op' = Raise(e, "TypeError")
            /\ UNCHANGED <<meta, clock>>
       ELSE /\ meta' = Some([hash |-> HashMeta, created_at |-> Some(clock),
                             updated_at |-> Some(clock + 1), operation |-> "update",
                             library_dirs |-> library_dirs, errors |-> op[e].errors,
                             stats |-> Some(UpdateStats(op[e].new_paths,
                                                        op[e].removed_paths, items[1]))])
            /\ clock' = clock + 2
            /\ op' = [op EXCEPT ![e].pc = "save"]
    /\ UNCHANGED <<env_vars, coord_vars, disk, items, ops_called, client_vars>>

\* update(), lines 166-182: the new metadata
UpdateMeta(e) ==
    /\ op[e].pc = "u_meta"
    /\ IF items = None
       THEN /\ op' = Raise(e, "TypeError")
            /\ UNCHANGED <<meta, clock>>
       ELSE LET kept == meta # None /\ meta[1] # EmptyMeta
                created == IF kept THEN meta[1].created_at ELSE Some(clock)
                now == IF kept THEN clock ELSE clock + 1
            IN  /\ meta' = Some([hash |-> HashMeta, created_at |-> created,
                                 updated_at |-> Some(now), operation |-> "update",
                                 library_dirs |-> library_dirs, errors |-> op[e].errors,
                                 stats |-> Some(UpdateStats(op[e].new_paths,
                                                            op[e].removed_paths, items[1]))])
                /\ clock' = now + 1
                /\ op' = [op EXCEPT ![e].pc = "save"]
    /\ UNCHANGED <<env_vars, coord_vars, disk, items, ops_called, client_vars>>

\* the start of a build() or update() call
EnterStore(kind) ==
    [IdleOp EXCEPT !.pc = kind, !.kind = kind, !.seen_files = files, !.old_items = items]

\* a direct caller (scripts/test_parallel_index.py) calls build() or update()
ScriptCall(kind) ==
    /\ deployment = "script"
    /\ op[CallerThread].pc \in {"idle", "returned", "raised"}
    /\ ops_called < MaxOps
    /\ ops_called' = ops_called + 1
    /\ op' = [op EXCEPT ![CallerThread] =
                [EnterStore(kind) EXCEPT !.follows_update =
                    /\ op[CallerThread].kind = "update"
                    /\ op[CallerThread].pc = "returned"
                    /\ op[CallerThread].seen_files = files]]
    /\ UNCHANGED <<env_vars, coord_vars, disk, meta, items, clock, client_vars>>

NoStoreCall == \A e \in Executors : op[e].pc \in {"idle", "returned", "raised"}

\* the library changes between store calls: a file is created or deleted
FsChange(path) ==
    /\ NoStoreCall
    /\ fs_changes < MaxFsChanges
    /\ fs_changes' = fs_changes + 1
    /\ files' = IF path \in files THEN files \ {path} ELSE files \cup {path}
    /\ UNCHANGED <<deployment, build_workers, library_dirs, corrupt,
                   store_vars, coord_vars, clock, client_vars>>

StoreStep(e) ==
    \/ BuildClear(e)
    \/ BuildHash(e)
    \/ SaveOpen(e)
    \/ SaveWrite(e)
    \/ ReturnIndex(e)
    \/ UpdateInit(e)
    \/ UpdatePrune(e)
    \/ UpdateHash(e)
    \/ UpdateMeta(e)

(***************************************************************************)
(* lookup_matches (server/index_store.py lines 202-212).                   *)
(***************************************************************************)
\* lines 205-209: one result per entry, in dict iteration order
ScanResults(its, query_hash) ==
    [i \in DOMAIN its |->
        [id |-> its[i].image_id, path |-> its[i].path,
         distance |-> ComputeDistance(query_hash, its[i].hash)]]

\* a result put into a sorted list behind every result that is not farther
InsertByDistance(sorted, r) ==
    LET before == SelectSeq(sorted, LAMBDA x : x.distance <= r.distance)
        after == SelectSeq(sorted, LAMBDA x : x.distance > r.distance)
    IN  before \o <<r>> \o after

\* a result put in front of the results that are as far: what a sort that
\* does not keep the order of equal keys may do
InsertByDistanceUnstable(sorted, r) ==
    LET before == SelectSeq(sorted, LAMBDA x : x.distance < r.distance)
        after == SelectSeq(sorted, LAMBDA x : x.distance >= r.distance)
    IN  before \o <<r>> \o after

RECURSIVE SortPrefixUnstable(_, _)
SortPrefixUnstable(results, n) ==
    IF n = 0 THEN <<>>
    ELSE InsertByDistanceUnstable(SortPrefixUnstable(results, n - 1), results[n])

SortByDistanceUnstable(results) == SortPrefixUnstable(results, Len(results))

\* no sort at all
SortByDistanceMissing(results) == results

\* the first n results sorted by insertion, which keeps the order of equal keys
RECURSIVE SortPrefix(_, _)
SortPrefix(results, n) ==
    IF n = 0 THEN <<>>
    ELSE InsertByDistance(SortPrefix(results, n - 1), results[n])

\* line 211: results.sort(key=distance); list.sort is stable
SortByDistance(results) == SortPrefix(results, Len(results))

Min(a, b) == IF a <= b THEN a ELSE b
Max(a, b) == IF a >= b THEN a ELSE b

\* line 212: results[:top_k]; a negative top_k counts from the end
Slice(results, top_k) ==
    IF top_k >= 0 THEN SubSeq(results, 1, Min(top_k, Len(results)))
    ELSE SubSeq(results, 1, Max(0, Len(results) + top_k))

\* config.DEFAULT_TOP_K, the top_k of a request that names none (main.py 214)
TopKDefault == 3

LookupMatches(query_hash, top_k) ==
    IF ~IsLoaded THEN <<>>
    ELSE Slice(SortByDistance(ScanResults(items[1], query_hash)), top_k)

Lookup(query_hash, top_k) ==
    /\ query' = Some([query_hash |-> query_hash, top_k |-> top_k,
                      matches |-> LookupMatches(query_hash, top_k)])
    /\ UNCHANGED <<env_vars, store_vars, coord_vars, clock, reader, poll, batch, pp,
                   fetch, waiter, det, pool, crop, split>>

(***************************************************************************)
(* lookup_image (server/main.py lines 210-226): a request thread reads the *)
(* store in four steps, with no lock; build() and update() on another      *)
(* thread can run between any two of them.                                 *)
(***************************************************************************)
IdleReader == [pc |-> "idle", calls |-> 0, query_hash |-> 0, data |-> None,
               matches |-> <<>>, count |-> 0, raised |-> None,
               \* for the properties: a build() or update() that started from
               \* a loaded index was running at one of the request's steps
               overlap |-> FALSE]

\* a build() or update() that found an index in memory is in progress
Reindexing ==
    \E e \in Executors :
        op[e].pc \notin {"idle", "returned", "raised"} /\ op[e].old_items # None

\* the next step of an update() changes the size of the dict in place: the
\* del of line 114 or the update of line 156
ResizePending ==
    /\ items # None
    /\ \E e \in Executors :
          \/ op[e].pc = "u_prune" /\ \E i \in DOMAIN items[1] : items[1][i].path \notin files
          \/ op[e].pc = "u_hash" /\ \E out \in HashOutcomes(op[e].new_paths) :
                                        out.exc = None /\ out.items # <<>>

\* line 217: the hash of the uploaded picture; the client uploads the
\* picture that a.jpg holds
UploadedHashes == {CreateHash("lib/a.jpg")}

\* line 210: is_loaded(), else HTTP 400
LookupIsLoaded(query_hash) ==
    /\ reader.pc \in {"idle", "done"}
    /\ reader.calls < MaxLookups
    /\ reader' = IF IsLoaded
                 THEN [IdleReader EXCEPT !.pc = "get_index", !.calls = reader.calls + 1,
                                         !.query_hash = query_hash, !.overlap = Reindexing]
                 ELSE [IdleReader EXCEPT !.pc = "done", !.calls = reader.calls + 1,
                                         !.query_hash = query_hash, !.overlap = Reindexing,
                                         !.raised = Some("HTTPException 400")]
    /\ UNCHANGED <<env_vars, store_vars, coord_vars, clock, query, poll, batch, pp,
                   fetch, waiter, det, pool, crop, split>>

\* line 212: get_index() raises ValueError when the index is not loaded
LookupGetIndex ==
    /\ reader.pc = "get_index"
    /\ reader' = IF IsLoaded
                 THEN [reader EXCEPT !.pc = "matches", !.data = meta,
                                     !.overlap = @ \/ Reindexing]
                 ELSE [reader EXCEPT !.pc = "done", !.raised = Some("ValueError"),
                                     !.overlap = @ \/ Reindexing]
    /\ UNCHANGED <<env_vars, store_vars, coord_vars, clock, query, poll, batch, pp,
                   fetch, waiter, det, pool, crop, split>>

\* line 219: lookup_matches with the default top_k.  The loop of lines
\* 206-209 iterates the dict that update() changes in place: when a del or a
\* merge lands during the loop the iterator raises RuntimeError ("dictionary
\* changed size during iteration")
LookupScan ==
    /\ reader.pc = "matches"
    /\ \E resized \in {FALSE, ResizePending} :
          reader' = IF resized
                    THEN [reader EXCEPT !.pc = "done", !.raised = Some("RuntimeError"),
                                        !.overlap = @ \/ Reindexing]
                    ELSE [reader EXCEPT !.pc = "respond",
                                        !.matches = LookupMatches(reader.query_hash, TopKDefault),
                                        !.overlap = @ \/ Reindexing]
    /\ UNCHANGED <<env_vars, store_vars, coord_vars, clock, query, poll, batch, pp,
                   fetch, waiter, det, pool, crop, split>>

\* lines 221-226: the response, with count = get_count()
LookupRespond ==
    /\ reader.pc = "respond"
    /\ reader' = [reader EXCEPT !.pc = "done", !.count = GetCount,
                                !.overlap = @ \/ Reindexing]
    /\ UNCHANGED <<env_vars, store_vars, coord_vars, clock, query, poll, batch, pp,
                   fetch, waiter, det, pool, crop, split>>

LookupImage ==
    \/ \E query_hash \in UploadedHashes : LookupIsLoaded(query_hash)
    \/ LookupGetIndex
    \/ LookupScan
    \/ LookupRespond

(***************************************************************************)
(* get_image (server/main.py lines 236-243) and the store's queries behind *)
(* it: get_image_blob calls get_image_info, which reads the store's fields *)
(* with no lock; build() and update() on another thread can run between    *)
(* any two of the reads.  get_index is called on its own.                  *)
(***************************************************************************)
\* the ids a client asks for: those of the library's paths and one that no
\* path has
RequestIds == {ImageId(path) : path \in Paths} \cup {"00"}

\* f.read() of the file at a path
FileBytes(path) == <<"bytes of", path>>

\* mimetypes.guess_type(path)[0]: by the extension, None when it is unknown
GuessType(path) == IF path \in Paths THEN Some("image/jpeg") ELSE None

\* line 222: guess_type(...)[0] or "application/octet-stream"
MediaType(path) ==
    IF GuessType(path) # None THEN GuessType(path)[1] ELSE "application/octet-stream"

IdleFetch == [pc |-> "idle", calls |-> 0, op |-> "none", image_id |-> "",
              info |-> None, ret |-> None, raised |-> None, status |-> 0]

\* lines 239-243 on what get_image_blob returned: 404 for None, else 200
RespondBlob(f, blob) ==
    [f EXCEPT !.pc = "done", !.ret = blob, !.status = IF blob = None THEN 404 ELSE 200]

\* an exception that leaves get_image_blob and the endpoint: HTTP 500
RespondError(f, name) ==
    [f EXCEPT !.pc = "done", !.raised = Some(name), !.status = 500]

\* get_image_info, lines 192-193: not loaded, return None
GetImageStart(image_id) ==
    /\ fetch.pc \in {"idle", "done"}
    /\ fetch.calls < MaxFetches
    /\ LET f == [IdleFetch EXCEPT !.calls = fetch.calls + 1, !.op = "get_image",
                                  !.image_id = image_id]
       IN  fetch' = IF IsLoaded
                    THEN [f EXCEPT !.pc = "truthy"]
                    ELSE RespondBlob(f, None)
    /\ UNCHANGED <<env_vars, store_vars, coord_vars, clock, query, reader, poll, batch, pp,
                   waiter, det, pool, crop, split>>

\* line 194, the condition "if self._items": None and the empty dict are
\* both false, and item is None
GetImageInfoTruthy ==
    /\ fetch.pc = "truthy"
    /\ fetch' = IF items # None /\ items[1] # <<>>
                THEN [fetch EXCEPT !.pc = "get"]
                ELSE RespondBlob(fetch, None)
    /\ UNCHANGED <<env_vars, store_vars, coord_vars, clock, query, reader, poll, batch, pp,
                   waiter, det, pool, crop, split>>

\* line 194, self._items.get(image_id): the field is read a second time, and
\* None has no attribute "get"; lines 195-197
GetImageInfoGet ==
    /\ fetch.pc = "get"
    /\ fetch' =
         IF items = None THEN RespondError(fetch, "AttributeError")
         ELSE LET found == SelectSeq(items[1], LAMBDA it : it.image_id = fetch.image_id)
              IN  IF found = <<>> THEN RespondBlob(fetch, None)
                  ELSE [fetch EXCEPT !.pc = "exists", !.info = Some(found[1])]
    /\ UNCHANGED <<env_vars, store_vars, coord_vars, clock, query, reader, poll, batch, pp,
                   waiter, det, pool, crop, split>>

\* get_image_blob, lines 218-220: os.path.exists(info.path)
GetImageExists ==
    /\ fetch.pc = "exists"
    /\ fetch' = IF fetch.info[1].path \in files
                THEN [fetch EXCEPT !.pc = "read"]
                ELSE RespondBlob(fetch, None)
    /\ UNCHANGED <<env_vars, store_vars, coord_vars, clock, query, reader, poll, batch, pp,
                   waiter, det, pool, crop, split>>

\* lines 221-227: the file is opened and read; any exception (the file is
\* gone by now, or may not be read) is logged and None returned
GetImageRead ==
    /\ fetch.pc = "read"
    /\ \E readable \in BOOLEAN :
          fetch' = IF readable /\ fetch.info[1].path \in files
                   THEN RespondBlob(fetch, Some([data |-> FileBytes(fetch.info[1].path),
                                                 media_type |-> MediaType(fetch.info[1].path)]))
                   ELSE RespondBlob(fetch, None)
    /\ UNCHANGED <<env_vars, store_vars, coord_vars, clock, query, reader, poll, batch, pp,
                   waiter, det, pool, crop, split>>

GetImage ==
    \/ \E image_id \in RequestIds : GetImageStart(image_id)
    \/ GetImageInfoTruthy
    \/ GetImageInfoGet
    \/ GetImageExists
    \/ GetImageRead

\* get_index(), lines 186-189, called by a user of the store
GetIndexCall ==
    /\ fetch.pc \in {"idle", "done"}
    /\ fetch.calls < MaxFetches
    /\ LET f == [IdleFetch EXCEPT !.calls = fetch.calls + 1, !.op = "get_index",
                                  !.pc = "done"]
       IN  fetch' = IF IsLoaded
                    THEN [f EXCEPT !.ret = Some([data |-> <<"index">>, media_type |-> ""])]
                    ELSE [f EXCEPT !.raised = Some("ValueError")]
    /\ UNCHANGED <<env_vars, store_vars, coord_vars, clock, query, reader, poll, batch, pp,
                   waiter, det, pool, crop, split>>

(***************************************************************************)
(* Build coordinator (server/index_builder_coordinator.py).                *)
(***************************************************************************)
NoThread == [pc |-> "none", rebuild |-> FALSE, exc |-> None, result |-> None]

ThreadsCreated == Cardinality({t \in Threads : thr[t].pc # "none"})

\* Thread.is_alive()
IsAlive(t) == thr[t].pc \notin {"none", "unstarted", "finished"}

\* the parameters build() and update() declare besides self (index_store.py
\* lines 38 and 92), and the keywords _run_build_task passes (lines 116, 118)
StoreKeywords(rebuild) == IF rebuild THEN {} ELSE {}
CallKeywords == {"progress_callback"}

\* a Python call binds only when every keyword names a declared parameter
CallBinds(rebuild) == CallKeywords \subseteq StoreKeywords(rebuild)

\* raise RuntimeError("Build already in progress"), line 65
ConflictError == <<"RuntimeError", "Build already in progress">>
\* what threading.Thread.start raises when no thread can be started
LaunchError == <<"RuntimeError", "can't start new thread">>

\* the check made against the wrong status
BuildRunningWrongStatus ==
    current_task # None /\ tasks[current_task[1]].status = "completed"

\* lines 64-65: the check that rejects a second build
BuildRunning == current_task # None /\ tasks[current_task[1]].status = "running"

NoTask == [operation |-> "", status |-> "none", progress |-> 0, total |-> None,
           started_at |-> 0, completed_at |-> None, error |-> None, result |-> None]

\* the operation named the wrong way round
NewTaskSwapped(rebuild, now) ==
    [NoTask EXCEPT !.operation = IF rebuild THEN "update" ELSE "build",
                   !.status = "running", !.started_at = now]

\* lines 68-75: BuildProgress(...)
NewTask(rebuild, now) ==
    [operation |-> IF rebuild THEN "build" ELSE "update",
     status |-> "running", progress |-> 0, total |-> None, started_at |-> now,
     completed_at |-> None, error |-> None, result |-> None]

\* start_build(rebuild), all of it under _task_lock.  Thread.start() either
\* starts the thread or raises RuntimeError("can't start new thread").
StartBuild(rebuild) ==
    /\ deployment = "server"
    /\ task_lock = None
    /\ IF BuildRunning
       THEN /\ last_call' = [rebuild |-> rebuild, ret |-> None,
                             raised |-> Some(ConflictError)]
            /\ UNCHANGED <<tasks, current_task, background_thread, thr, clock>>
       ELSE /\ ThreadsCreated < MaxBuilds
            /\ LET t == ThreadsCreated + 1
               IN  /\ tasks' = [tasks EXCEPT ![t] = NewTask(rebuild, clock)]
                   /\ current_task' = Some(t)
                   /\ clock' = clock + 1
                   /\ background_thread' = Some(t)
                   /\ \E started \in BOOLEAN :
                         IF started
                         THEN /\ thr' = [thr EXCEPT ![t] = [NoThread EXCEPT !.pc = "run",
                                                                          !.rebuild = rebuild]]
                              /\ last_call' = [rebuild |-> rebuild, ret |-> Some(t),
                                               raised |-> None]
                         ELSE /\ thr' = [thr EXCEPT ![t] = [NoThread EXCEPT !.pc = "unstarted",
                                                                          !.rebuild = rebuild]]
                              /\ last_call' = [rebuild |-> rebuild, ret |-> None,
                                               raised |-> Some(LaunchError)]
    /\ UNCHANGED <<env_vars, store_vars, task_lock, client_vars>>

\* build_index_endpoint (main.py lines 187-198) on what start_build did:
\* 202 with the record, 409 for any RuntimeError, 500 for any other exception
BuildIndexResponse(call) ==
    IF call.raised = None THEN 202
    ELSE IF call.raised[1][1] = "RuntimeError" THEN 409
    ELSE 500

\* the write of the status is lost
SetTaskLosesStatus(field, value) ==
    IF field = "status" THEN tasks ELSE [tasks EXCEPT ![current_task[1]][field] = value]

\* every write of the record also marks the progress as unknown (-1)
SetTaskResetsProgress(field, value) ==
    [tasks EXCEPT ![current_task[1]][field] = value, ![current_task[1]].progress = -1]

\* self._current_task.<field> = value
SetTask(field, value) == [tasks EXCEPT ![current_task[1]][field] = value]

\* _run_build_task(rebuild) on thread t, one step.  Positions:
\*   run           lines 115-118, the call of build() or update()
\*   in_store      inside that call (the store's steps), until it ends
\*   completed     line 121: take the lock, line 123
\*   c_completed_at, c_total, c_progress, c_result   lines 124-127
\*   failed        line 135: take the lock, line 137
\*   f_completed_at, f_error                         lines 138-139
RunBuildTask(t) ==
    /\ IsAlive(t)
    /\ LET pc == thr[t].pc
           goto(next) == [thr EXCEPT ![t].pc = next]
       IN
       CASE pc = "run" ->
              IF CallBinds(thr[t].rebuild)
              THEN /\ thr' = goto("in_store")
                   /\ op' = [op EXCEPT ![t] =
                               EnterStore(IF thr[t].rebuild THEN "build" ELSE "update")]
                   /\ UNCHANGED <<tasks, task_lock, clock>>
              ELSE /\ thr' = [thr EXCEPT ![t].pc = "failed", ![t].exc = Some("TypeError")]
                   /\ UNCHANGED <<op, tasks, task_lock, clock>>
         [] pc = "in_store" ->
              /\ op[t].pc \in {"returned", "raised"}
              /\ thr' = IF op[t].pc = "returned"
                        THEN [thr EXCEPT ![t].pc = "completed",
                                         ![t].result = Some(op[t].ret[1].meta)]
                        ELSE [thr EXCEPT ![t].pc = "failed", ![t].exc = op[t].exc]
              /\ UNCHANGED <<op, tasks, task_lock, clock>>
         [] pc = "completed" ->
              /\ task_lock = None
              /\ task_lock' = Some(t)
              /\ tasks' = SetTask("status", "completed")
              /\ thr' = goto("c_completed_at")
              /\ UNCHANGED <<op, clock>>
         [] pc = "c_completed_at" ->
              /\ tasks' = SetTask("completed_at", Some(clock))
              /\ clock' = clock + 1
              /\ thr' = goto("c_total")
              /\ UNCHANGED <<op, task_lock>>
         [] pc = "c_total" ->
              /\ tasks' = SetTask("total", Some(GetCount))
              /\ thr' = goto("c_progress")
              /\ UNCHANGED <<op, task_lock, clock>>
         [] pc = "c_progress" ->
              /\ tasks' = SetTask("progress", tasks[current_task[1]].total[1])
              /\ thr' = goto("c_result")
              /\ UNCHANGED <<op, task_lock, clock>>
         [] pc = "c_result" ->
              /\ tasks' = SetTask("result", thr[t].result)
              /\ task_lock' = None
              /\ thr' = goto("finished")
              /\ UNCHANGED <<op, clock>>
         [] pc = "failed" ->
              /\ task_lock = None
              /\ task_lock' = Some(t)
              /\ tasks' = SetTask("status", "failed")
              /\ thr' = goto("f_completed_at")
              /\ UNCHANGED <<op, clock>>
         [] pc = "f_completed_at" ->
              /\ tasks' = SetTask("completed_at", Some(clock))
              /\ clock' = clock + 1
              /\ thr' = goto("f_error")
              /\ UNCHANGED <<op, task_lock>>
         [] pc = "f_error" ->
              /\ tasks' = SetTask("error", thr[t].exc)
              /\ task_lock' = None
              /\ thr' = goto("finished")
              /\ UNCHANGED <<op, clock>>
    /\ UNCHANGED <<env_vars, disk, meta, items, ops_called, current_task,
                   background_thread, last_call, client_vars>>

(***************************************************************************)
(* wait_for_completion (index_builder_coordinator.py lines 141-155),       *)
(* called once by the shutdown hook (main.py lines 91-98).  It takes no    *)
(* lock: _background_thread is read at lines 151, 154 and 155, and         *)
(* start_build can run between the reads.                                  *)
(***************************************************************************)
\* timeout=30 (main.py line 95), in ticks
WaitTimeout == 2

IdleWaiter == [pc |-> "idle", thread |-> None, waited |-> 0, ret |-> None, raised |-> None]

\* Thread.join on a thread that was never started
JoinError == <<"RuntimeError", "cannot join thread before it is started">>

\* lines 151-152
WaitStart ==
    /\ waiter.pc = "idle"
    /\ waiter' = IF background_thread = None
                 THEN [waiter EXCEPT !.pc = "done", !.ret = Some(TRUE)]
                 ELSE [waiter EXCEPT !.pc = "join"]
    /\ UNCHANGED <<env_vars, store_vars, coord_vars, clock, query, reader, poll, batch, pp,
                   fetch, det, pool, crop, split>>

\* line 154, the call: join raises RuntimeError for a thread never started
WaitJoin ==
    /\ waiter.pc = "join"
    /\ waiter' = IF thr[background_thread[1]].pc = "unstarted"
                 THEN [waiter EXCEPT !.pc = "done", !.raised = Some(JoinError)]
                 ELSE [waiter EXCEPT !.pc = "joining", !.thread = background_thread]
    /\ UNCHANGED <<env_vars, store_vars, coord_vars, clock, query, reader, poll, batch, pp,
                   fetch, det, pool, crop, split>>

\* line 154, blocked in join: time passes while the thread is alive, up to
\* the timeout
JoinTick ==
    /\ waiter.pc = "joining"
    /\ IsAlive(waiter.thread[1])
    /\ waiter.waited < WaitTimeout
    /\ waiter' = [waiter EXCEPT !.waited = @ + 1]
    /\ UNCHANGED <<env_vars, store_vars, coord_vars, clock, query, reader, poll, batch, pp,
                   fetch, det, pool, crop, split>>

\* line 154, join returns: the thread has ended or the timeout has passed
JoinReturn ==
    /\ waiter.pc = "joining"
    /\ ~IsAlive(waiter.thread[1]) \/ waiter.waited = WaitTimeout
    /\ waiter' = [waiter EXCEPT !.pc = "is_alive"]
    /\ UNCHANGED <<env_vars, store_vars, coord_vars, clock, query, reader, poll, batch, pp,
                   fetch, det, pool, crop, split>>

\* line 155: return not self._background_thread.is_alive()
WaitReturn ==
    /\ waiter.pc = "is_alive"
    /\ waiter' = [waiter EXCEPT !.pc = "done", !.ret = Some(~IsAlive(background_thread[1]))]
    /\ UNCHANGED <<env_vars, store_vars, coord_vars, clock, query, reader, poll, batch, pp,
                   fetch, det, pool, crop, split>>

WaitForCompletion ==
    \/ WaitStart
    \/ WaitJoin
    \/ JoinTick
    \/ JoinReturn
    \/ WaitReturn

(***************************************************************************)
(* index_status (server/main.py lines 139-153): get_status() returns the   *)
(* BuildProgress object itself, under the lock; the request then reads its *)
(* fields one after the other, outside the lock.                           *)
(***************************************************************************)
NoSnapshot == [operation |-> "", status |-> "none", progress |-> 0, total |-> None,
               started_at |-> 0, completed_at |-> None, error |-> None]

IdlePoll == [pc |-> "idle", calls |-> 0, ref |-> None, seen |-> NoSnapshot,
             \* for the properties: what the request before this one observed
             prev_ref |-> None, prev |-> NoSnapshot]

\* line 142, get_status(): with self._task_lock: return self._current_task
GetStatus ==
    /\ poll.pc \in {"idle", "done"}
    /\ poll.calls < MaxPolls
    /\ task_lock = None
    /\ poll' = [pc |-> IF current_task = None THEN "done" ELSE "p_status",
                calls |-> poll.calls + 1, ref |-> current_task, seen |-> NoSnapshot,
                prev_ref |-> poll.ref, prev |-> poll.seen]
    /\ UNCHANGED <<env_vars, store_vars, coord_vars, clock, query, reader, batch, pp,
                   fetch, waiter, det, pool, crop, split>>

\* lines 146-152: one step per field that the background thread writes
\* (operation and started_at never change and are read along)
ReadTaskFields ==
    /\ poll.pc \in {"p_status", "p_progress", "p_total", "p_completed_at", "p_error"}
    /\ LET task == tasks[poll.ref[1]]
       IN  poll' =
             CASE poll.pc = "p_status" ->
                    [poll EXCEPT !.pc = "p_progress", !.seen.operation = task.operation,
                                 !.seen.status = task.status]
               [] poll.pc = "p_progress" ->
                    [poll EXCEPT !.pc = "p_total", !.seen.progress = task.progress]
               [] poll.pc = "p_total" ->
                    [poll EXCEPT !.pc = "p_completed_at", !.seen.total = task.total,
                                 !.seen.started_at = task.started_at]
               [] poll.pc = "p_completed_at" ->
                    [poll EXCEPT !.pc = "p_error", !.seen.completed_at = task.completed_at]
               [] poll.pc = "p_error" ->
                    [poll EXCEPT !.pc = "done", !.seen.error = task.error]
    /\ UNCHANGED <<env_vars, store_vars, coord_vars, clock, query, reader, batch, pp,
                   fetch, waiter, det, pool, crop, split>>

IndexStatus ==
    \/ GetStatus
    \/ ReadTaskFields

(***************************************************************************)
(* detect_main_image (server/image_detection_engine.py).  The model keeps  *)
(* the sizes of the arrays the code makes and the index ranges its scans   *)
(* run over; which index a scan returns depends on the pixels, and the     *)
(* model lets it return any index its code can return.  Fractions are in   *)
(* percent, int(n * 0.35) is the floor of n * 35 / 100.                    *)
(***************************************************************************)
\* the side above which the image is scaled down: 1000 in the code, scaled
\* so that images of the model's sizes are on both sides of it
MAX_DIM == 12
SMOOTH_KERNEL == 11
TOP_SEARCH_FRACTION == 35
BOTTOM_SEARCH_START == 65
MAIN_IMAGE_MIN_AREA_RATIO == 60

Percent(n, p) == (n * p) \div 100

\* lines 202-206: int(side * scale) with scale = MAX_DIM / max(height, width)
ResizedSide(side, longest) ==
    IF longest > MAX_DIM THEN (side * MAX_DIM) \div longest ELSE side

\* _smooth_1d: np.convolve(values, kernel, mode="same") has the length of
\* the longer of the two (and raises ValueError when values is empty)
SmoothLen(n) == Max(n, Max(3, SMOOTH_KERNEL))

\* _max_grad_index: argmax over grad[:max(1, max_idx - 1)]
MaxGradIndex(max_idx) == 0 .. (Max(1, max_idx - 1) - 1)

\* _max_grad_index_from_right: (scores.shape[0] - 2) - idx
MaxGradIndexFromRight(n, max_idx) == {(n - 2) - idx : idx \in MaxGradIndex(max_idx)}

\* _first_last_above: the first crossing in range(1, max_idx), or
\* argmax(scores[1:max_idx]) + 1
FirstAbove(max_idx) == 1 .. (max_idx - 1)

\* _best_segment_end and _segments_above: the end of a segment within
\* range(max_idx), or argmax(scores[1:max_idx]) + 1
SegmentEnd(max_idx) == 0 .. (max_idx - 1)

\* _find_top, lines 119-125
FindTop(top_max) == SegmentEnd(top_max) \cup MaxGradIndex(top_max) \cup FirstAbove(top_max)

\* _find_bottom, lines 140-143: the scan of range(height - 2, bottom_min - 1,
\* -1), or argmax(row_diff[bottom_min : height - 1]) + bottom_min
FindBottom(height, bottom_min) == bottom_min .. (height - 2)

\* _find_left, lines 158-171
FindLeft(left_max) == MaxGradIndex(left_max) \cup FirstAbove(left_max) \cup SegmentEnd(left_max)

\* _find_right, lines 187-193
FindRight(width, right_max, right_min) ==
    MaxGradIndexFromRight(width, right_max) \cup (right_min .. (width - 2))

\* lines 272-277: int(x / scale).  The quotient is computed in floating
\* point: when x / scale is a whole number q the result is q or q - 1
ScaleBack(x, longest) ==
    IF longest > MAX_DIM
    THEN LET q == (x * longest) \div MAX_DIM
         IN  IF (x * longest) % MAX_DIM = 0 /\ q > 0 THEN {q, q - 1} ELSE {q}
    ELSE {x}

Clamp(x, hi) == Max(0, Min(x, hi))

FullImage(width, height) == <<0, 0, width - 1, height - 1>>

\* the clamped box is returned whatever its area
GuardrailSkipsAreaCheck(width, height, x0, y0, x1, y1) ==
    LET cx0 == Clamp(x0, width - 1)
        cx1 == Clamp(x1, width - 1)
        cy0 == Clamp(y0, height - 1)
        cy1 == Clamp(y1, height - 1)
    IN  IF cx1 <= cx0 \/ cy1 <= cy0 THEN FullImage(width, height)
        ELSE <<cx0, cy0, cx1, cy1>>

\* lines 279-292: clamp, then the full image for a box that is degenerate or
\* covers less than MAIN_IMAGE_MIN_AREA_RATIO of the image
Guardrail(width, height, x0, y0, x1, y1) ==
    LET cx0 == Clamp(x0, width - 1)
        cx1 == Clamp(x1, width - 1)
        cy0 == Clamp(y0, height - 1)
        cy1 == Clamp(y1, height - 1)
    IN  IF cx1 <= cx0 \/ cy1 <= cy0 THEN FullImage(width, height)
        ELSE IF 100 * ((cx1 - cx0 + 1) * (cy1 - cy0 + 1))
                  < MAIN_IMAGE_MIN_AREA_RATIO * (width * height)
        THEN FullImage(width, height)
        ELSE <<cx0, cy0, cx1, cy1>>

\* lines 218-270 and 272-277: the boxes the scans can propose for arrays of
\* diff_height rows and diff_width columns, in full-resolution coordinates.
\* The refinements of lines 238-270 move y1 within FindBottom's range and y0
\* to the end of a segment, within FindTop's range.
CandidateBoxes(diff_width, diff_height, longest) ==
    LET top_max == Max(2, Percent(diff_height, TOP_SEARCH_FRACTION))
        bottom_min == Percent(diff_height, BOTTOM_SEARCH_START)
        left_max == Max(2, Percent(diff_width, TOP_SEARCH_FRACTION))
        right_min == Percent(diff_width, BOTTOM_SEARCH_START)
        right_max == left_max
    IN  UNION {ScaleBack(x0 + 1, longest) \X ScaleBack(y0 + 1, longest)
                 \X ScaleBack(x1 + 1, longest) \X ScaleBack(y1 + 1, longest) :
                   x0 \in FindLeft(left_max), y0 \in FindTop(top_max),
                   x1 \in FindRight(diff_width, right_max, right_min),
                   y1 \in FindBottom(diff_height, bottom_min)}

\* detect_main_image(pil_image) for an image of the given size: what it
\* raises, or the boxes it can return.
\*   cv2.resize raises cv2.error for a target size with a zero side;
\*   gray[1:, :] has no row when the array has one row, and _smooth_1d then
\*   raises ValueError (line 215); likewise for one column (line 216)
DetectOutcomes(width, height) ==
    LET longest == Max(height, width)
        rw == ResizedSide(width, longest)
        rh == ResizedSide(height, longest)
    IN  IF rw = 0 \/ rh = 0
        THEN {[width |-> width, height |-> height, raised |-> Some("cv2.error"),
               box |-> <<>>]}
        ELSE IF rh - 1 = 0 \/ rw - 1 = 0
        THEN {[width |-> width, height |-> height, raised |-> Some("ValueError"),
               box |-> <<>>]}
        ELSE {[width |-> width, height |-> height, raised |-> None,
               box |-> Guardrail(width, height, c[1], c[2], c[3], c[4])] :
                 c \in CandidateBoxes(SmoothLen(rw - 1), SmoothLen(rh - 1), longest)}

\* one call per run
DetectMainImage(width, height) ==
    /\ det = None
    /\ \E out \in DetectOutcomes(width, height) : det' = Some(out)
    /\ UNCHANGED <<env_vars, store_vars, coord_vars, clock, query, reader, poll, batch, pp,
                   fetch, waiter, pool, crop, split>>

(***************************************************************************)
(* _iter_batches on its own (index_builder.py lines 52-72).                *)
(***************************************************************************)
\* the path sequences discovered, repeats included
SplitInputs == UNION {[1 .. n -> Paths] : n \in 0 .. MaxSplitLen}

\* list(_iter_batches(paths, batch_size)); one call per run
SplitIntoBatches(paths, batch_size) ==
    /\ split = None
    /\ split' = Some([paths |-> paths, batch_size |-> batch_size,
                      batches |-> IterBatches(paths, batch_size)])
    /\ UNCHANGED <<env_vars, store_vars, coord_vars, clock, query, reader, poll, batch, pp,
                   fetch, waiter, det, pool, crop>>

(***************************************************************************)
(* create_hash on a region (phash_engine.py lines 32-66), for the image of *)
(* the last detect_main_image call.                                        *)
(***************************************************************************)
\* _sanitize_bbox, lines 32-40
SanitizeBbox(bbox, width, height) ==
    LET x0 == Max(0, Min(bbox[1], width - 1))
        y0 == Max(0, Min(bbox[2], height - 1))
        x1 == Max(0, Min(bbox[3], width - 1))
        y1 == Max(0, Min(bbox[4], height - 1))
    IN  IF x1 < x0 \/ y1 < y0
        THEN [raised |-> Some("ValueError"), box |-> <<>>]
        ELSE [raised |-> None, box |-> <<x0, y0, x1, y1>>]

\* the inclusive corner is passed on as the exclusive one
CropSizeInclusive(box) == <<box[3] - box[1], box[4] - box[2]>>

\* line 62: image.crop((x0, y0, x1 + 1, y1 + 1)); PIL's region has size
\* (right - left, lower - upper)
CropSize(box) == <<(box[3] + 1) - box[1], (box[4] + 1) - box[2]>>

\* the boxes a caller passes: the box detect_main_image returned for the
\* image, or, for a small image, any four integers around its sides
RegionBoxes ==
    (IF det # None /\ det[1].raised = None THEN {det[1].box} ELSE {})
    \cup (IF det # None /\ det[1].width <= MaxBoxCoord /\ det[1].height <= MaxBoxCoord
          THEN {<<x0, y0, x1, y1>> : x0 \in -1 .. MaxBoxCoord, y0 \in -1 .. MaxBoxCoord,
                                     x1 \in -1 .. MaxBoxCoord, y1 \in -1 .. MaxBoxCoord}
          ELSE {})

\* create_hash(image, bbox), lines 59-66; one call per run.  PHash.compute
\* is taken to return for every region of at least one pixel.
CreateHashRegion(bbox) ==
    /\ det # None
    /\ crop = None
    /\ LET clean == SanitizeBbox(bbox, det[1].width, det[1].height)
       IN  crop' = Some([bbox |-> bbox, raised |-> clean.raised, box |-> clean.box,
                         size |-> IF clean.raised = None THEN CropSize(clean.box)
                                  ELSE <<>>])
    /\ UNCHANGED <<env_vars, store_vars, coord_vars, clock, query, reader, poll, batch, pp,
                   fetch, waiter, det, pool, split>>

(***************************************************************************)
(* The size of build_index_parallel's worker pool (index_builder.py lines  *)
(* 93-110).                                                                *)
(***************************************************************************)
\* the requested count is taken as it is
WorkerCountUncapped(workers, cpu_count) ==
    LET max_workers == Max(1, (IF cpu_count = None THEN 2 ELSE cpu_count[1]) - 1)
    IN  IF workers <= 0 THEN max_workers ELSE workers

\* lines 94-101; os.cpu_count() is None when the count is unknown, and the
\* code then counts 2
WorkerCount(workers, cpu_count) ==
    LET max_workers == Max(1, (IF cpu_count = None THEN 2 ELSE cpu_count[1]) - 1)
    IN  IF workers <= 0 THEN max_workers ELSE Min(workers, max_workers)

\* line 110: ProcessPoolExecutor(max_workers=workers); one call per run
SizePool(workers, cpu_count) ==
    /\ pool = None
    /\ pool' = Some([requested |-> workers, cpu_count |-> cpu_count,
                     max_workers |-> WorkerCount(workers, cpu_count)])
    /\ UNCHANGED <<env_vars, store_vars, coord_vars, clock, query, reader, poll, batch, pp,
                   fetch, waiter, det, crop, split>>

(***************************************************************************)
(* The program.                                                            *)
(***************************************************************************)
NoCall == [rebuild |-> FALSE, ret |-> None, raised |-> None]

Init ==
    /\ deployment \in {"server", "script"}
    /\ build_workers \in {0, 1}
    /\ library_dirs \in {<<"lib">>, <<"lib", "lib/sub">>}
    /\ files = {"lib/a.jpg", "lib/b.jpg", "lib/c.jpg"}
    /\ corrupt \in {{}, {"lib/sub/d.jpg"}}
    /\ fs_changes = 0
    /\ disk = AbsentFile
    /\ meta = None
    /\ items = None
    /\ op = [e \in Executors |-> IdleOp]
    /\ ops_called = 0
    /\ clock = 1
    /\ tasks = [t \in Threads |-> NoTask]
    /\ current_task = None
    /\ task_lock = None
    /\ background_thread = None
    /\ thr = [t \in Threads |-> NoThread]
    /\ last_call = NoCall
    /\ query = None
    /\ reader = IdleReader
    /\ poll = IdlePoll
    /\ batch = None
    /\ pp = None
    /\ fetch = IdleFetch
    /\ waiter = IdleWaiter
    /\ det = None
    /\ pool = None
    /\ crop = None
    /\ split = None

Next ==
    \/ \E kind \in {"build", "update"} : ScriptCall(kind)
    \/ \E path \in Paths : FsChange(path)
    \/ \E e \in Executors : StoreStep(e)
    \/ \E rebuild \in BOOLEAN : StartBuild(rebuild)
    \/ \E t \in Threads : RunBuildTask(t)

Spec == Init /\ [][Next]_vars

(***************************************************************************)
(* lookup_matches on its own: the index is any mapping the store can hold  *)
(* (any subset of the library's files in any dict order), or is not        *)
(* loaded; the caller asks with any hash and any top_k.                    *)
(***************************************************************************)
IndexOrders ==
    {[i \in DOMAIN s |-> EntryOf(s[i])] :
        s \in {q \in UNION {[1 .. n -> Paths] : n \in 0 .. Cardinality(Paths)} :
                 \A i, j \in DOMAIN q : i # j => q[i] # q[j]}}

InitLookup ==
    /\ deployment = "server"
    /\ build_workers = 0
    /\ library_dirs = <<"lib">>
    /\ files = Paths
    /\ corrupt = {}
    /\ fs_changes = 0
    /\ \/ /\ items \in {Some(its) : its \in IndexOrders}
          /\ meta = Some(BuildMeta(0, <<>>))
          /\ disk = JsonDump(meta, items)
       \/ /\ items = None
          /\ meta = None
          /\ disk = AbsentFile
    /\ op = [e \in Executors |-> IdleOp]
    /\ ops_called = 0
    /\ clock = 1
    /\ tasks = [t \in Threads |-> NoTask]
    /\ current_task = None
    /\ task_lock = None
    /\ background_thread = None
    /\ thr = [t \in Threads |-> NoThread]
    /\ last_call = NoCall
    /\ query = None
    /\ reader = IdleReader
    /\ poll = IdlePoll
    /\ batch = None
    /\ pp = None
    /\ fetch = IdleFetch
    /\ waiter = IdleWaiter
    /\ det = None
    /\ pool = None
    /\ crop = None
    /\ split = None

NextLookup == \E query_hash \in Hashes, top_k \in -1 .. MaxTopK : Lookup(query_hash, top_k)

SpecLookup == InitLookup /\ [][NextLookup]_vars

(***************************************************************************)
(* The store shared by two threads: one calls build() and update(), the    *)
(* other serves lookup requests.  The index of a, b, c is loaded, as after *)
(* a build; since then b may have been deleted and d added.                *)
(***************************************************************************)
InitReader ==
    /\ deployment = "script"
    /\ build_workers \in {0, 1}
    /\ library_dirs = <<"lib">>
    /\ files \in {{"lib/a.jpg", "lib/b.jpg", "lib/c.jpg"},
                  {"lib/a.jpg", "lib/c.jpg", "lib/sub/d.jpg"}}
    /\ corrupt = {}
    /\ fs_changes = 0
    /\ items = Some(<<EntryOf("lib/a.jpg"), EntryOf("lib/b.jpg"), EntryOf("lib/c.jpg")>>)
    /\ meta = Some(BuildMeta(0, <<>>))
    /\ disk = JsonDump(meta, items)
    /\ op = [e \in Executors |-> IdleOp]
    /\ ops_called = 0
    /\ clock = 1
    /\ tasks = [t \in Threads |-> NoTask]
    /\ current_task = None
    /\ task_lock = None
    /\ background_thread = None
    /\ thr = [t \in Threads |-> NoThread]
    /\ last_call = NoCall
    /\ query = None
    /\ reader = IdleReader
    /\ poll = IdlePoll
    /\ batch = None
    /\ pp = None
    /\ fetch = IdleFetch
    /\ waiter = IdleWaiter
    /\ det = None
    /\ pool = None
    /\ crop = None
    /\ split = None

NextReader ==
    \/ \E kind \in {"build", "update"} : ScriptCall(kind)
    \/ StoreStep(CallerThread)
    \/ LookupImage

SpecReader == InitReader /\ [][NextReader]_vars

(***************************************************************************)
(* The store shared by two threads: one calls build() and update(), the    *)
(* other asks for the index, for matches and for images.  Either nothing   *)
(* is loaded and there is no index file, or the index of a, b, c is        *)
(* loaded; b may have been deleted and d added since.                      *)
(***************************************************************************)
InitImage ==
    /\ deployment = "script"
    /\ build_workers \in {0, 1}
    /\ library_dirs = <<"lib">>
    /\ files \in {{"lib/a.jpg", "lib/b.jpg", "lib/c.jpg"},
                  {"lib/a.jpg", "lib/c.jpg", "lib/sub/d.jpg"}}
    /\ corrupt = {}
    /\ fs_changes = 0
    /\ \/ /\ items = Some(<<EntryOf("lib/a.jpg"), EntryOf("lib/b.jpg"), EntryOf("lib/c.jpg")>>)
          /\ meta = Some(BuildMeta(0, <<>>))
          /\ disk = JsonDump(meta, items)
       \/ /\ items = None
          /\ meta = None
          /\ disk = AbsentFile
    /\ op = [e \in Executors |-> IdleOp]
    /\ ops_called = 0
    /\ clock = 1
    /\ tasks = [t \in Threads |-> NoTask]
    /\ current_task = None
    /\ task_lock = None
    /\ background_thread = None
    /\ thr = [t \in Threads |-> NoThread]
    /\ last_call = NoCall
    /\ query = None
    /\ reader = IdleReader
    /\ poll = IdlePoll
    /\ batch = None
    /\ pp = None
    /\ fetch = IdleFetch
    /\ waiter = IdleWaiter
    /\ det = None
    /\ pool = None
    /\ crop = None
    /\ split = None

NextImage ==
    \/ \E kind \in {"build", "update"} : ScriptCall(kind)
    \/ StoreStep(CallerThread)
    \/ GetImage
    \/ GetIndexCall
    \/ \E query_hash \in UploadedHashes : Lookup(query_hash, TopKDefault)

SpecImage == InitImage /\ [][NextImage]_vars

(***************************************************************************)
(* The server with clients polling the build status.                       *)
(***************************************************************************)
InitStatus ==
    /\ Init
    /\ deployment = "server"
    /\ build_workers = 0
    /\ library_dirs = <<"lib">>
    /\ corrupt = {}

NextStatus ==
    \/ \E rebuild \in BOOLEAN : StartBuild(rebuild)
    \/ \E t \in Threads : RunBuildTask(t)
    \/ IndexStatus

SpecStatus == InitStatus /\ [][NextStatus]_vars

(***************************************************************************)
(* The server shutting down: the shutdown hook waits for the build while   *)
(* requests that start builds may still arrive.                            *)
(***************************************************************************)
NextShutdown ==
    \/ \E rebuild \in BOOLEAN : StartBuild(rebuild)
    \/ \E t \in Threads : RunBuildTask(t)
    \/ WaitForCompletion

SpecShutdown == InitStatus /\ [][NextShutdown]_vars

(***************************************************************************)
(* The server's background tasks under a fair scheduler: a thread that can *)
(* take its next step of _run_build_task takes it in the end (its lock is  *)
(* only ever held for the few assignments of lines 121-127 and 135-139).   *)
(***************************************************************************)
NextTasks ==
    \/ \E rebuild \in BOOLEAN : StartBuild(rebuild)
    \/ \E t \in Threads : RunBuildTask(t)

SpecTasks ==
    InitStatus /\ [][NextTasks]_vars /\ \A t \in Threads : WF_vars(RunBuildTask(t))

(***************************************************************************)
(* _process_image_batch on its own: any batch of up to MaxBatchLen paths,  *)
(* over any library (each file present or not, readable or not).           *)
(***************************************************************************)
BatchInputs ==
    UNION {[1 .. n -> Paths] : n \in 0 .. MaxBatchLen}

\* one call per run
ProcessBatch(paths) ==
    /\ batch = None
    /\ LET r == ProcessImageBatch(paths, files, corrupt)
       IN  batch' = Some([paths |-> paths, results |-> r.results, errors |-> r.errors])
    /\ UNCHANGED <<env_vars, store_vars, coord_vars, clock, query, reader, poll, pp,
                   fetch, waiter, det, pool, crop, split>>

InitBatch ==
    /\ deployment = "script"
    /\ build_workers = 0
    /\ library_dirs = <<"lib">>
    /\ files \in SUBSET Paths
    /\ corrupt \in SUBSET Paths
    /\ fs_changes = 0
    /\ disk = AbsentFile
    /\ meta = None
    /\ items = None
    /\ op = [e \in Executors |-> IdleOp]
    /\ ops_called = 0
    /\ clock = 1
    /\ tasks = [t \in Threads |-> NoTask]
    /\ current_task = None
    /\ task_lock = None
    /\ background_thread = None
    /\ thr = [t \in Threads |-> NoThread]
    /\ last_call = NoCall
    /\ query = None
    /\ reader = IdleReader
    /\ poll = IdlePoll
    /\ batch = None
    /\ pp = None
    /\ fetch = IdleFetch
    /\ waiter = IdleWaiter
    /\ det = None
    /\ pool = None
    /\ crop = None
    /\ split = None

NextBatch == \E paths \in BatchInputs : ProcessBatch(paths)

SpecBatch == InitBatch /\ [][NextBatch]_vars

(***************************************************************************)
(* build_index_parallel step by step (index_builder.py lines 105-145):     *)
(* every batch is submitted to the pool, then the loop over                *)
(* as_completed(futures) takes the futures as they finish.  Nothing makes  *)
(* a worker finish: a batch can stay running for any length of time.       *)
(***************************************************************************)
\* future.result(timeout=300): 300 seconds, in ticks
BatchTimeout == 2

\* lines 110-115: the pool after every batch was submitted
SubmittedPool(paths) ==
    LET batches == IterBatches(paths, BATCH_SIZE)
    IN  [pc |-> "collect", batches |-> batches,
         futures |-> [b \in DOMAIN batches |-> "running"],
         items |-> <<>>, errors |-> <<>>,
         \* time spent blocked in as_completed since the last future came
         waited |-> 0]

\* a worker returns the batch's (results, errors), or its process dies
WorkerEnds(b) ==
    /\ pp.futures[b] = "running"
    /\ \E outcome \in {"done", "broken"} :
          pp' = [pp EXCEPT !.futures[b] = outcome]
    /\ UNCHANGED <<env_vars, store_vars, coord_vars, clock, query, reader, poll, batch,
                   fetch, waiter, det, pool, crop, split>>

\* as_completed blocks, without a timeout of its own, until some future is
\* finished; meanwhile time passes
BlockedTick ==
    /\ pp.pc = "collect"
    /\ \A b \in DOMAIN pp.futures : pp.futures[b] \in {"running", "collected"}
    /\ \E b \in DOMAIN pp.futures : pp.futures[b] = "running"
    /\ pp.waited < MaxWait
    /\ pp' = [pp EXCEPT !.waited = @ + 1]
    /\ UNCHANGED <<env_vars, store_vars, coord_vars, clock, query, reader, poll, batch,
                   fetch, waiter, det, pool, crop, split>>

\* lines 118-143: as_completed yields a finished future; result(timeout=300)
\* returns at once (or raises what the worker raised), so the TimeoutError
\* branch of line 138 is never taken
CollectFuture(b) ==
    /\ pp.pc = "collect"
    /\ pp.futures[b] \in {"done", "broken"}
    /\ pp' = IF pp.futures[b] = "done"
             THEN LET r == ProcessImageBatch(pp.batches[b], files, corrupt)
                  IN  [pp EXCEPT !.futures[b] = "collected",
                                 !.items = DictUpdate(@, r.results),
                                 !.errors = @ \o r.errors,
                                 !.waited = 0]
             ELSE [pp EXCEPT !.futures[b] = "collected",
                             !.errors = Append(@, [path |-> "", message |-> "Worker error"]),
                             !.waited = 0]
    /\ UNCHANGED <<env_vars, store_vars, coord_vars, clock, query, reader, poll, batch,
                   fetch, waiter, det, pool, crop, split>>

\* line 145, once the loop has taken every future
ReturnItems ==
    /\ pp.pc = "collect"
    /\ \A b \in DOMAIN pp.futures : pp.futures[b] = "collected"
    /\ pp' = [pp EXCEPT !.pc = "returned"]
    /\ UNCHANGED <<env_vars, store_vars, coord_vars, clock, query, reader, poll, batch,
                   fetch, waiter, det, pool, crop, split>>

InitParallel ==
    /\ deployment = "script"
    /\ build_workers = 0
    /\ library_dirs \in {<<"lib">>, <<"lib", "lib/sub">>}
    /\ files \in {{"lib/a.jpg", "lib/b.jpg", "lib/c.jpg"}, Paths}
    /\ corrupt \in {{}, {"lib/sub/d.jpg"}}
    /\ fs_changes = 0
    /\ disk = AbsentFile
    /\ meta = None
    /\ items = None
    /\ op = [e \in Executors |-> IdleOp]
    /\ ops_called = 0
    /\ clock = 1
    /\ tasks = [t \in Threads |-> NoTask]
    /\ current_task = None
    /\ task_lock = None
    /\ background_thread = None
    /\ thr = [t \in Threads |-> NoThread]
    /\ last_call = NoCall
    /\ query = None
    /\ reader = IdleReader
    /\ poll = IdlePoll
    /\ batch = None
    /\ pp = SubmittedPool(IterImageFiles(library_dirs, files))
    /\ fetch = IdleFetch
    /\ waiter = IdleWaiter
    /\ det = None
    /\ pool = None
    /\ crop = None
    /\ split = None

NextParallel ==
    \/ \E b \in DOMAIN pp.futures : WorkerEnds(b)
    \/ BlockedTick
    \/ \E b \in DOMAIN pp.futures : CollectFuture(b)
    \/ ReturnItems

SpecParallel == InitParallel /\ [][NextParallel]_vars

(***************************************************************************)
(* A process that starts with whatever an earlier run left at the index    *)
(* path: no file, a file cut short by a failed save, or a complete         *)
(* document; it calls init() (as the server does at startup) and update(). *)
(***************************************************************************)
InitLoad ==
    /\ deployment = "script"
    /\ build_workers \in {0, 1}
    /\ library_dirs = <<"lib">>
    /\ files = {"lib/a.jpg", "lib/b.jpg", "lib/c.jpg"}
    /\ corrupt = {}
    /\ fs_changes = 0
    /\ disk \in {AbsentFile, PartialFile,
                 JsonDump(Some(BuildMeta(0, <<>>)),
                          Some(<<EntryOf("lib/a.jpg"), EntryOf("lib/sub/d.jpg")>>))}
    /\ meta = None
    /\ items = None
    /\ op = [e \in Executors |-> IdleOp]
    /\ ops_called = 0
    /\ clock = 1
    /\ tasks = [t \in Threads |-> NoTask]
    /\ current_task = None
    /\ task_lock = None
    /\ background_thread = None
    /\ thr = [t \in Threads |-> NoThread]
    /\ last_call = NoCall
    /\ query = None
    /\ reader = IdleReader
    /\ poll = IdlePoll
    /\ batch = None
    /\ pp = None
    /\ fetch = IdleFetch
    /\ waiter = IdleWaiter
    /\ det = None
    /\ pool = None
    /\ crop = None
    /\ split = None

NextLoad ==
    \/ \E kind \in {"init", "update"} : ScriptCall(kind)
    \/ StoreStep(CallerThread)

SpecLoad == InitLoad /\ [][NextLoad]_vars

(***************************************************************************)
(* Index documents across runs.  The index path holds a document that an   *)
(* earlier run saved, or an older or foreign one: without "meta", without  *)
(* "items", or with a further top-level field.  The process calls init(),  *)
(* build() and update(), and may end and start again with a new store.     *)
(***************************************************************************)
\* the document of an earlier build, which recorded an error
EarlierDocument ==
    JsonDump(Some([hash |-> HashMeta, created_at |-> Some(0), updated_at |-> Some(0),
                   operation |-> "build", library_dirs |-> <<"lib">>,
                   errors |-> <<[path |-> "lib/sub/d.jpg",
                                 message |-> "UnidentifiedImageError"]>>,
                   stats |-> None]),
             Some(<<EntryOf("lib/a.jpg"), EntryOf("lib/c.jpg")>>))

Documents ==
    {AbsentFile,
     EarlierDocument,
     [EarlierDocument EXCEPT !.keys = {"items"}, !.meta = None],
     [EarlierDocument EXCEPT !.keys = {"meta"}, !.items = <<>>],
     [EarlierDocument EXCEPT !.keys = {"meta", "items", "version"}]}

\* IndexStore.__init__ in a new process: nothing is in memory
NewStore ==
    /\ deployment = "script"
    /\ NoStoreCall
    /\ op[CallerThread].pc # "idle"
    /\ meta' = None
    /\ items' = None
    /\ op' = [op EXCEPT ![CallerThread] = IdleOp]
    /\ UNCHANGED <<env_vars, coord_vars, disk, ops_called, clock, client_vars>>

InitDocument ==
    /\ deployment = "script"
    /\ build_workers = 0
    /\ library_dirs = <<"lib">>
    /\ files \in {{"lib/a.jpg", "lib/b.jpg"}, {"lib/a.jpg", "lib/b.jpg", "lib/c.jpg"}}
    /\ corrupt \in {{}, {"lib/b.jpg"}}
    /\ fs_changes = 0
    /\ disk \in Documents
    /\ meta = None
    /\ items = None
    /\ op = [e \in Executors |-> IdleOp]
    /\ ops_called = 0
    /\ clock = 1
    /\ tasks = [t \in Threads |-> NoTask]
    /\ current_task = None
    /\ task_lock = None
    /\ background_thread = None
    /\ thr = [t \in Threads |-> NoThread]
    /\ last_call = NoCall
    /\ query = None
    /\ reader = IdleReader
    /\ poll = IdlePoll
    /\ batch = None
    /\ pp = None
    /\ fetch = IdleFetch
    /\ waiter = IdleWaiter
    /\ det = None
    /\ pool = None
    /\ crop = None
    /\ split = None

NextDocument ==
    \/ \E kind \in {"init", "build", "update"} : ScriptCall(kind)
    \/ StoreStep(CallerThread)
    \/ NewStore

SpecDocument == InitDocument /\ [][NextDocument]_vars

(***************************************************************************)
(* detect_main_image on its own: an image of any width and height from 1   *)
(* to MaxSide, with any content.                                           *)
(***************************************************************************)
InitDetect ==
    /\ Init
    /\ deployment = "server"
    /\ build_workers = 0
    /\ library_dirs = <<"lib">>
    /\ corrupt = {}

NextDetect == \E width, height \in 1 .. MaxSide : DetectMainImage(width, height)

SpecDetect == InitDetect /\ [][NextDetect]_vars

(***************************************************************************)
(* _iter_batches on any sequence of discovered paths, for the batch sizes  *)
(* a caller passes (build_index_parallel's batch_size, 20 by default).     *)
(***************************************************************************)
NextSplit ==
    \E paths \in SplitInputs, batch_size \in 1 .. MaxBatchSize :
        SplitIntoBatches(paths, batch_size)

SpecSplit == InitDetect /\ [][NextSplit]_vars

(***************************************************************************)
(* An uploaded image is run through detect_main_image and then hashed on a *)
(* region: the detected box or one the caller chose (main.py lines 217 and *)
(* 229-233).                                                               *)
(***************************************************************************)
NextRegion ==
    \/ \E width, height \in 1 .. MaxSide : DetectMainImage(width, height)
    \/ \E bbox \in RegionBoxes : CreateHashRegion(bbox)

SpecRegion == InitDetect /\ [][NextRegion]_vars

(***************************************************************************)
(* The sizing of the worker pool on its own: any requested count, on a     *)
(* host with any number of processors, known or not.                       *)
(***************************************************************************)
InitPool ==
    /\ Init
    /\ deployment = "script"
    /\ build_workers = 0
    /\ library_dirs = <<"lib">>
    /\ corrupt = {}

NextPool ==
    \E workers \in -2 .. MaxWorkersAsked,
       cpu_count \in {None} \cup {Some(n) : n \in 1 .. MaxCpus} :
        SizePool(workers, cpu_count)

SpecPool == InitPool /\ [][NextPool]_vars

(***************************************************************************)
(* Properties of the build coordinator, checked under Spec.                *)
(***************************************************************************)
RunningTasks == {t \in Threads : tasks[t].status = "running"}

\* the background operations launched and not yet ended
InFlight == {t \in Threads : thr[t].pc \in {"run", "in_store"}}

\* the threads inside a build() or update() call
InStore == {e \in Executors : op[e].pc \notin {"idle", "returned", "raised"}}

\* C1: in every reachable state at most one task record is running, at most
\* one background operation is in flight and at most one build/update call
\* is executing against the store.
C1_AtMostOneRunning ==
    /\ Cardinality(RunningTasks) <= 1
    /\ Cardinality(InFlight) <= 1
    /\ Cardinality(InStore) <= 1

\* a second task runs after the first ended, and a start_build call made
\* meanwhile was turned away
C1_Witness ==
    /\ ThreadsCreated >= 2
    /\ Cardinality(RunningTasks) = 1
    /\ Cardinality(InFlight) = 1
    /\ last_call.raised = Some(ConflictError)

CurrentStatus == IF current_task = None THEN "none" ELSE tasks[current_task[1]].status

\* C2: a start_build call made while the current task is running raises the
\* conflict error in that one step and changes neither a task record, nor
\* which record is current, nor any thread or store call: nothing is started,
\* queued, cancelled or replaced.
C2_ConflictLeavesTaskUntouched ==
    [][\A rebuild \in BOOLEAN :
          (CurrentStatus = "running" /\ StartBuild(rebuild))
              => /\ last_call'.raised = Some(ConflictError)
                 /\ last_call'.ret = None
                 /\ UNCHANGED <<tasks, current_task, background_thread, thr, op,
                                task_lock, store_vars>>]_vars

\* a call was turned away while the task it met is still running on its thread
C2_Witness ==
    /\ last_call.raised = Some(ConflictError)
    /\ CurrentStatus = "running"
    /\ IsAlive(current_task[1])

\* what a start_build step leaves installed: a new current record, running,
\* progress 0, total null, named after the flag
InstalledNew(rebuild) ==
    /\ current_task' # None
    /\ current_task' # current_task
    /\ tasks'[current_task'[1]].status = "running"
    /\ tasks'[current_task'[1]].progress = 0
    /\ tasks'[current_task'[1]].total = None
    /\ tasks'[current_task'[1]].operation = (IF rebuild THEN "build" ELSE "update")
    /\ tasks[current_task'[1]].status = "none"

C22_ConflictOnlyWhenRunning ==
    [][\A rebuild \in BOOLEAN :
          StartBuild(rebuild)
              => /\ (BuildIndexResponse(last_call') = 409) <=> BuildRunning
                 /\ (last_call'.raised # None /\ ~BuildRunning)
                       => last_call'.raised[1][1] # ConflictError[1]]_vars

\* C32: whenever the current task is running, the thread installed for it
\* is alive, so that it will write the task's end; a start_build whose
\* thread could not be launched leaves no running record behind.
C32_RunningTaskHasLiveThread ==
    BuildRunning => IsAlive(current_task[1])

\* C4: a task accepted on an idle coordinator, in a library where every file
\* hashes and with no failure writing or reading the index file, ends
\* completed, with the store holding the index its build() or update() made.
C4_AcceptedBuildCompletes ==
    \A t \in Threads :
        (/\ thr[t].pc = "finished"
         /\ files \cap corrupt = {}
         /\ thr[t].exc \notin {Some("OSError"), Some("JSONDecodeError")})
            => /\ tasks[t].status = "completed"
               /\ op[t].pc = "returned"
               /\ IsLoaded

(***************************************************************************)
(* Properties of the index store, checked under Spec.                      *)
(***************************************************************************)
\* the update() calls that found an index loaded (steps 1-6 of update)
Incremental(e) == op[e].kind = "update" /\ op[e].old_items # None

Over(e) == op[e].pc \in {"returned", "raised"}

OldPaths(e) == {op[e].old_items[1][i].path : i \in DOMAIN op[e].old_items[1]}

\* M: the entries whose backing file was deleted
DeletedPaths(e) == OldPaths(e) \ op[e].seen_files

\* K: the files of the library that the index did not have
AddedPaths(e) == Range(IterImageFiles(library_dirs, op[e].seen_files)) \ OldPaths(e)

\* C5: an update() of an index of N entries, M of them with a deleted file and
\* K new files in the library, returns N - M + K entries with stats
\* added = K, removed = M, total = N - M + K, also when new files fail to
\* hash or a file is discovered twice.
C5_UpdateCounts ==
    \A e \in Executors :
        (Incremental(e) /\ op[e].pc = "returned")
            => LET n == Len(op[e].old_items[1])
                   m == Cardinality(DeletedPaths(e))
                   k == Cardinality(AddedPaths(e))
               IN  /\ Len(op[e].ret[1].items) = n - m + k
                   /\ op[e].ret[1].meta.stats =
                        Some([added |-> k, removed |-> m, total |-> n - m + k])

\* C6: once an update() of a loaded index is over, the mapping is the old
\* entries whose file still exists, unchanged, together with an entry for
\* every path of the library that was not indexed (and can be hashed); a
\* failure to write the index file aside.
C6_UpdateKeepsAndAdds ==
    \A e \in Executors :
        (Incremental(e) /\ Over(e) /\ op[e].exc # Some("OSError"))
            => /\ items # None
               /\ Range(items[1]) =
                    {it \in Range(op[e].old_items[1]) : it.path \in op[e].seen_files}
                    \cup {EntryOf(p) : p \in AddedPaths(e) \ corrupt}

\* the mapping any parallel build of the library yields, as a set of entries
ParallelMappings(fs) ==
    LET paths == IterImageFiles(library_dirs, fs)
    IN  {Range(BuildIndexParallel(paths, o, fs, corrupt).items) :
           o \in CompletionOrders(BatchCount(paths))}

\* C7: a build in sequential mode (build_workers = 1) completes, as a build
\* in parallel mode does, and its mapping is the one every parallel build of
\* the same files yields; a failure to write the index file aside.
C7_SequentialBuildMatchesParallel ==
    \A e \in Executors :
        (op[e].kind = "build" /\ build_workers = 1 /\ Over(e) /\ op[e].exc # Some("OSError"))
            => /\ op[e].pc = "returned"
               /\ ParallelMappings(op[e].seen_files) = {Range(op[e].ret[1].items)}

\* the entries of the files of a library that hash
HashedEntries(fs) ==
    {EntryOf(path) : path \in Range(IterImageFiles(library_dirs, fs)) \ corrupt}

\* C17: a build() or update() whose parallel run failed has processed the
\* files sequentially and returned the index: the caller gets the entries of
\* the old files kept and of the files hashed, and no exception (a failure
\* to write the index file aside).
C17_ParallelFailureFallsBack ==
    \A e \in Executors :
        (op[e].fell_back /\ Over(e) /\ op[e].exc # Some("OSError"))
            => /\ op[e].pc = "returned"
               /\ HashedEntries(op[e].seen_files) \subseteq Range(op[e].ret[1].items)

\* C20: when build() returns, the mapping is exactly the entries of the
\* files discovered in the library that hash, whatever the index held
\* before, and the metadata has operation "build" and created_at equal to
\* updated_at.
C20_BuildIndexesExactlyTheLibrary ==
    \A e \in Executors :
        (op[e].kind = "build" /\ op[e].pc = "returned")
            => LET ret == op[e].ret[1]
               IN  /\ Range(ret.items) = HashedEntries(op[e].seen_files)
                   /\ Len(ret.items) = Cardinality(HashedEntries(op[e].seen_files))
                   /\ items = Some(ret.items)
                   /\ ret.meta.operation = "build"
                   /\ ret.meta.created_at = ret.meta.updated_at

\* a build() returned over an index that held an entry whose file is gone,
\* in a library with a new file
C20_Witness ==
    \E e \in Executors :
        /\ op[e].kind = "build"
        /\ op[e].pc = "returned"
        /\ op[e].old_items # None
        /\ \E it \in Range(op[e].old_items[1]) : it.path \notin op[e].seen_files
        /\ \E it \in Range(op[e].ret[1].items) : it \notin Range(op[e].old_items[1])

\* every entry is keyed by the id of its own path, and no two entries share
\* a path or an id
KeyedByPath(its) ==
    /\ \A i \in DOMAIN its : its[i].image_id = ImageId(its[i].path)
    /\ \A i, j \in DOMAIN its :
          i # j => its[i].path # its[j].path /\ its[i].image_id # its[j].image_id

\* C27: the id of an entry depends on its path alone: in the index in memory,
\* in the index file and in what build() and update() return, every entry
\* has the id of its path whatever picture the file holds, and entries of
\* distinct paths have distinct ids; so a build() over a library that never
\* changed returns the image_id -> (path, hash) mapping the index held
\* before.
C27_ImageIdIsFunctionOfPath ==
    /\ items # None => KeyedByPath(items[1])
    /\ KeyedByPath(disk.items)
    /\ \A e \in Executors :
          op[e].pc = "returned" /\ op[e].ret # None
            => /\ KeyedByPath(op[e].ret[1].items)
               /\ (op[e].kind = "build" /\ op[e].old_items # None /\ fs_changes = 0)
                     => Range(op[e].ret[1].items) = Range(op[e].old_items[1])

\* a build() returned over the index of an earlier build of the same
\* library, in which two files hold the same picture
C27_Witness ==
    \E e \in Executors :
        /\ op[e].kind = "build"
        /\ op[e].pc = "returned"
        /\ fs_changes = 0
        /\ op[e].old_items # None
        /\ \E a, b \in Range(op[e].ret[1].items) :
              a.path # b.path /\ a.hash = b.hash /\ a.image_id # b.image_id

PathsOf(its) == {its[i].path : i \in DOMAIN its}

\* C33: after any sequence of build() and update() calls, every key of the
\* mapping is the image_id of its entry's path, and the number of entries is
\* the number of distinct paths indexed (no two entries share a path), also
\* when a file is discovered more than once.
C33_OneEntryPerPath ==
    (NoStoreCall /\ items # None)
        => LET its == items[1]
           IN  /\ \A i \in DOMAIN its : its[i].image_id = ImageId(its[i].path)
               /\ Len(its) = Cardinality(PathsOf(its))
               /\ Len(its) = Cardinality({ImageId(p) : p \in PathsOf(its)})

\* an update() returned that had discovered a new file twice (the library
\* directories overlap) and indexed it once
C33_Witness ==
    \E e \in Executors :
        /\ op[e].pc = "returned"
        /\ items # None
        /\ \E i, j \in DOMAIN op[e].new_paths :
              i # j /\ op[e].new_paths[i] = op[e].new_paths[j]
                    /\ op[e].new_paths[i] \in PathsOf(items[1])

\* C34: an update() that runs right after an update(), with no file added
\* or removed in between, returns the mapping it found and reports added =
\* 0, removed = 0 and the total it found, also when files of the library
\* cannot be hashed.
C34_SecondUpdateChangesNothing ==
    \A e \in Executors :
        (op[e].kind = "update" /\ op[e].follows_update /\ op[e].pc = "returned")
            => /\ Range(op[e].ret[1].items) = Range(op[e].old_items[1])
               /\ op[e].ret[1].meta.stats =
                    Some([added |-> 0, removed |-> 0, total |-> Len(op[e].old_items[1])])

\* C31: whenever no build() or update() is executing, also after one ended
\* with an exception at any step, the store is not loaded or the index in
\* memory (meta and items) is the document in the index file.
C31_MemoryMatchesFileAtRest ==
    NoStoreCall => (~IsLoaded \/ disk = JsonDump(meta, items))

\* C10: the index file is never seen cut short: at every instant it is
\* absent (as before the first save) or a complete document.
C10_NoPartialFileVisible == disk.state # "partial"

(***************************************************************************)
(* Properties of status polling, checked under SpecStatus.                 *)
(***************************************************************************)
Observed == poll.pc = "done" /\ poll.ref # None

\* C12: the fields a status request reads held together at one instant: it
\* never reports completed with completed_at or total null, nor failed with
\* error or completed_at null, nor running with completed_at or error set.
C12_PollNeverTorn ==
    Observed
        => /\ poll.seen.status = "completed"
                => poll.seen.completed_at # None /\ poll.seen.total # None
           /\ poll.seen.status = "failed"
                => poll.seen.error # None /\ poll.seen.completed_at # None
           /\ poll.seen.status = "running"
                => poll.seen.error = None /\ poll.seen.completed_at = None

Terminal(task) == task.status \in {"completed", "failed"}

\* C29: the status of a record changes only from running to completed or to
\* failed (a record is created running); once a record is completed or
\* failed, its status, error and result never change again; and a step of
\* a background thread changes no record but the one installed for it.
C29_TerminalRecordNeverChanges ==
    [][\A t \in Threads :
          /\ tasks'[t].status # tasks[t].status
                => \/ tasks[t].status = "none" /\ tasks'[t].status = "running"
                   \/ tasks[t].status = "running" /\ Terminal(tasks'[t])
          /\ Terminal(tasks[t])
                => /\ tasks'[t].status = tasks[t].status
                   /\ tasks'[t].error = tasks[t].error
                   /\ tasks'[t].result = tasks[t].result
          /\ RunBuildTask(t) => \A u \in Threads \ {t} : tasks'[u] = tasks[u]]_vars

(***************************************************************************)
(* Properties of the background task's end, checked under SpecTasks.       *)
(***************************************************************************)
\* the call of build() or update() on thread t has returned or raised
StoreCallOver(t) == thr[t].pc \in {"completed", "failed"}

\* C30: a running task whose store call has returned or raised, whatever the
\* exception, becomes completed or failed in the end; and once its thread
\* has ended the task is not running: it is failed, with an error message,
\* exactly when the call raised, and completed otherwise.
C30_RunningTaskBecomesTerminal ==
    /\ \A t \in Threads :
          (StoreCallOver(t) /\ tasks[t].status = "running") ~> Terminal(tasks[t])
    /\ [](\A t \in Threads :
            thr[t].pc = "finished"
              => /\ Terminal(tasks[t])
                 /\ tasks[t].status = "failed" <=> thr[t].exc # None
                 /\ tasks[t].status = "failed" <=> tasks[t].error # None)

\* a thread has ended after its call raised: its task is failed and carries
\* the message
C30_Witness ==
    \E t \in Threads :
        /\ thr[t].pc = "finished"
        /\ thr[t].exc # None
        /\ tasks[t].status = "failed"
        /\ tasks[t].error = thr[t].exc

(***************************************************************************)
(* Properties of wait_for_completion, checked under SpecShutdown.          *)
(***************************************************************************)
\* C26: the call never raises; it returns True at once when no build was
\* ever started; else it blocks for at most the timeout and returns True
\* exactly when the background operation has ended, the current task then
\* being completed or failed, and False while the task is running.
C26_WaitReportsCompletion ==
    [][/\ WaitForCompletion => waiter'.raised = None /\ waiter'.waited <= WaitTimeout
       /\ (WaitStart /\ background_thread = None)
             => waiter'.pc = "done" /\ waiter'.ret = Some(TRUE)
       /\ WaitReturn
             => /\ waiter'.ret = Some(thr[current_task[1]].pc = "finished")
                /\ waiter'.ret = Some(TRUE) => CurrentStatus \in {"completed", "failed"}
                /\ CurrentStatus = "running" => waiter'.ret = Some(FALSE)]_vars

(***************************************************************************)
(* Properties of the store under a concurrent lookup, checked under        *)
(* SpecReader.                                                             *)
(***************************************************************************)
\* C11: a lookup request that met a running build() or update() of a loaded
\* index at any of its steps ends without an error: no HTTP 400, no
\* ValueError from get_index, no RuntimeError from the scan.  (No step of the
\* request has a guard on the store call, so it never waits.)
C11_LookupDuringBuildNeverFails ==
    (reader.pc = "done" /\ reader.overlap) => reader.raised = None

(***************************************************************************)
(* Properties of the store's queries, checked under SpecImage.             *)
(***************************************************************************)
\* what lookup_matches returns for an index with no entry, and what
\* get_image_info / get_image_blob return for an id that no entry has
EmptyResult == <<>>
NotFound == None

\* C21: a query made while the index is not loaded tells its caller so:
\* get_index, get_image_info / get_image_blob and lookup_matches each raise,
\* or return something other than the empty result and the not-found value.
C21_NotLoadedIsSignalled ==
    [][/\ (~IsLoaded /\ GetIndexCall) => fetch'.raised # None
       /\ \A image_id \in RequestIds :
             (~IsLoaded /\ GetImageStart(image_id))
                 => fetch'.raised # None \/ fetch'.ret # NotFound
       /\ \A query_hash \in UploadedHashes :
             (~IsLoaded /\ Lookup(query_hash, TopKDefault))
                 => query'[1].matches # EmptyResult]_vars

\* a get_image request has been answered
Served == fetch.pc = "done" /\ fetch.op = "get_image"

\* C25: a get_image_blob call never raises, also beside a running build()
\* or update(): it returns None when no entry was found for the id (the
\* index not loaded included) or the entry's file is gone, and otherwise
\* None or the bytes of that file together with its media type.
C25_BlobAbsentOrBytes ==
    Served
        => /\ fetch.raised = None
           /\ fetch.ret # None
                => /\ fetch.info # None
                   /\ fetch.info[1].image_id = fetch.image_id
                   /\ fetch.ret[1] = [data |-> FileBytes(fetch.info[1].path),
                                      media_type |-> "image/jpeg"]
           /\ fetch.info = None => fetch.ret = None
           /\ (fetch.info # None /\ fetch.info[1].path \notin files) => fetch.ret = None

(***************************************************************************)
(* Properties of detect_main_image, checked under SpecDetect.              *)
(***************************************************************************)
\* C23: for an image of any width and height of at least 1 the call returns,
\* without raising, a box (x0, y0, x1, y1) with 0 <= x0 <= x1 < width and
\* 0 <= y0 <= y1 < height.
C23_DetectReturnsBoxWithinImage ==
    det # None
        => /\ det[1].raised = None
           /\ LET b == det[1].box
              IN  /\ 0 <= b[1] /\ b[1] <= b[3] /\ b[3] < det[1].width
                  /\ 0 <= b[2] /\ b[2] <= b[4] /\ b[4] < det[1].height

Returned == det # None /\ det[1].raised = None

BoxArea(b) == (b[3] - b[1] + 1) * (b[4] - b[2] + 1)

\* C24: a box the call returns is the full image, or has x1 > x0 and
\* y1 > y0 and covers at least 60% of the image.
C24_ReturnedBoxIsFullOrLarge ==
    Returned
        => LET b == det[1].box
           IN  \/ b = FullImage(det[1].width, det[1].height)
               \/ /\ b[3] > b[1]
                  /\ b[4] > b[2]
                  /\ 100 * BoxArea(b) >= 60 * (det[1].width * det[1].height)

\* a box smaller than the image was returned, for an image that was scaled
\* down
C24_Witness ==
    /\ Returned
    /\ det[1].box # FullImage(det[1].width, det[1].height)
    /\ det[1].width > MAX_DIM
    /\ 100 * BoxArea(det[1].box) < 70 * (det[1].width * det[1].height)

(***************************************************************************)
(* Properties of create_hash on a region, checked under SpecRegion.        *)
(***************************************************************************)
\* C37: a box that detect_main_image returned for an image is accepted by
\* create_hash for that image: sanitising it does not raise and leaves it
\* unchanged, and the region cropped has size (x1 - x0 + 1) x (y1 - y0 + 1),
\* at least 1 x 1; for any box a caller passes, create_hash raises only
\* when the box clamped to the image has x1 < x0 or y1 < y0.
C37_DetectedBoxIsHashable ==
    crop # None
        => LET b == crop[1].bbox
               cx0 == Clamp(b[1], det[1].width - 1)
               cy0 == Clamp(b[2], det[1].height - 1)
               cx1 == Clamp(b[3], det[1].width - 1)
               cy1 == Clamp(b[4], det[1].height - 1)
           IN  /\ (Returned /\ b = det[1].box)
                     => /\ crop[1].raised = None
                        /\ crop[1].box = b
                        /\ crop[1].size = <<b[3] - b[1] + 1, b[4] - b[2] + 1>>
                        /\ crop[1].size[1] >= 1 /\ crop[1].size[2] >= 1
               /\ crop[1].raised # None <=> (cx1 < cx0 \/ cy1 < cy0)
               /\ crop[1].raised = None
                     => /\ crop[1].size[1] >= 1 /\ crop[1].size[2] >= 1
                        /\ crop[1].box[3] < det[1].width
                        /\ crop[1].box[4] < det[1].height

\* the box detected in an image that was scaled down, smaller than the
\* image, was hashed
C37_Witness ==
    /\ Returned
    /\ crop # None
    /\ crop[1].bbox = det[1].box
    /\ det[1].box # FullImage(det[1].width, det[1].height)
    /\ det[1].width > MAX_DIM
    /\ crop[1].raised = None

(***************************************************************************)
(* Properties of _iter_batches, checked under SpecSplit.                   *)
(***************************************************************************)
\* C38: the batches yielded, joined in order, are the input sequence (no
\* path lost, repeated or moved); every batch has at least one path and at
\* most batch_size, and every batch but the last has exactly batch_size.
C38_BatchesPartitionThePaths ==
    split # None
        => LET batches == split[1].batches
               batch_size == split[1].batch_size
           IN  /\ Flatten(batches) = split[1].paths
               /\ \A i \in DOMAIN batches :
                     /\ Len(batches[i]) >= 1
                     /\ Len(batches[i]) <= batch_size
                     /\ i < Len(batches) => Len(batches[i]) = batch_size

\* five paths, one of them twice, were split into two batches of two and a
\* last batch of one
C38_Witness ==
    /\ split # None
    /\ Len(split[1].paths) = 5
    /\ split[1].batch_size = 2
    /\ Len(split[1].batches) = 3
    /\ Len(split[1].batches[3]) = 1
    /\ \E i, j \in DOMAIN split[1].paths : i # j /\ split[1].paths[i] = split[1].paths[j]

(***************************************************************************)
(* Properties of the worker pool's size, checked under SpecPool.           *)
(***************************************************************************)
\* max(1, cpu_count - 1), an unknown count taken as 2
PoolCap(cpu_count) ==
    IF cpu_count = None \/ cpu_count[1] <= 2 THEN 1 ELSE cpu_count[1] - 1

\* C28: the pool has at least 1 and at most max(1, cpu_count - 1) workers;
\* a requested count of 0 or less selects max(1, cpu_count - 1), and so does
\* any requested count above it.
C28_PoolSizeWithinCap ==
    pool # None
        => LET cap == PoolCap(pool[1].cpu_count)
           IN  /\ 1 <= pool[1].max_workers
               /\ pool[1].max_workers <= cap
               /\ pool[1].requested <= 0 => pool[1].max_workers = cap
               /\ pool[1].requested > cap => pool[1].max_workers = cap

\* more workers were asked for than the host's processors allow
C28_Witness ==
    /\ pool # None
    /\ pool[1].cpu_count = Some(4)
    /\ pool[1].requested = 8
    /\ pool[1].max_workers = 3

(***************************************************************************)
(* Properties of _process_image_batch, checked under SpecBatch.            *)
(***************************************************************************)
Fails(path) == LoadError(path, files, corrupt) # None

\* C15: the call returns, with one entry per file of the batch that loads
\* and hashes and one error "path: message" per file that does not, each in
\* batch order: every path of the batch is in exactly one of the two lists.
C15_EveryPathInResultsOrErrors ==
    batch # None
        => LET b == batch[1]
               good == SelectSeq(b.paths, LAMBDA p : ~Fails(p))
               bad == SelectSeq(b.paths, LAMBDA p : Fails(p))
           IN  /\ Len(b.results) + Len(b.errors) = Len(b.paths)
               /\ b.results = [i \in DOMAIN good |-> EntryOf(good[i])]
               /\ Len(b.errors) = Len(bad)
               /\ \A i \in DOMAIN bad :
                     /\ b.errors[i].path = bad[i]
                     /\ b.errors[i].message = LoadError(bad[i], files, corrupt)[1]

\* a batch with a failing file between two files that hash
C15_Witness ==
    /\ batch # None
    /\ Len(batch[1].paths) = 3
    /\ ~Fails(batch[1].paths[1])
    /\ Fails(batch[1].paths[2])
    /\ ~Fails(batch[1].paths[3])
    /\ Len(batch[1].results) = 2
    /\ Len(batch[1].errors) = 1

(***************************************************************************)
(* Properties of build_index_parallel, checked under SpecParallel.         *)
(***************************************************************************)
\* C16: a batch cannot hold the build longer than its timeout: once the
\* build has been blocked on unfinished batches for more than BatchTimeout
\* it has given them up (one "Batch timeout error" each) and moved on, so it
\* is never found still waiting after that time.
C16_BlockedNoLongerThanTimeout ==
    pp.pc = "collect" => pp.waited <= BatchTimeout

Degraded(e) == op[e].kind = "update" /\ op[e].old_items = None

\* C19: an update() made with no index loaded and no index file returns
\* what build() returns for the library: the entries of the files that hash,
\* metadata of operation "build" (created_at = updated_at, no stats), and
\* the index file holds that snapshot.
C19_UpdateWithoutIndexBuilds ==
    \A e \in Executors :
        (Degraded(e) /\ op[e].pc = "returned")
            => LET ret == op[e].ret[1]
               IN  /\ Range(ret.items) = HashedEntries(op[e].seen_files)
                   /\ ret.meta.operation = "build"
                   /\ ret.meta.created_at = ret.meta.updated_at
                   /\ ret.meta.stats = None
                   /\ disk = JsonDump(Some(ret.meta), Some(ret.items))

\* such an update() returned the three entries of the library
C19_Witness ==
    /\ Degraded(CallerThread)
    /\ op[CallerThread].pc = "returned"
    /\ Len(op[CallerThread].ret[1].items) = 3
    /\ disk.state = "complete"

(***************************************************************************)
(* Properties of index documents across runs, checked under SpecDocument.  *)
(***************************************************************************)
\* the step of update() on thread e that installs the new metadata
WritesUpdateMeta(e) == UpdateMeta(e) /\ op'[e].pc = "save"

\* the new metadata is of operation "update", its updated_at is read from
\* the clock during this update and is later than the old one, and its
\* errors are those of the paths this update tried and could not hash
RefreshedByUpdate(e) ==
    /\ meta'[1].operation = "update"
    /\ meta'[1].updated_at # None
    /\ meta'[1].updated_at[1] >= clock
    /\ meta[1].updated_at # None => meta'[1].updated_at[1] > meta[1].updated_at[1]
    /\ {meta'[1].errors[i].path : i \in DOMAIN meta'[1].errors}
          = Range(op[e].new_paths) \cap corrupt
    /\ Len(meta'[1].errors)
          = Len(SelectSeq(op[e].new_paths, LAMBDA path : path \in corrupt))

\* C35 as stated: update() on a loaded index keeps the created_at of the
\* existing metadata unchanged, refreshes updated_at, sets operation to
\* "update" and sets errors to the errors of this update only.
C35_UpdateKeepsCreatedAt ==
    [][\A e \in Executors :
          WritesUpdateMeta(e)
              => /\ meta'[1].created_at = meta[1].created_at
                 /\ RefreshedByUpdate(e)]_vars

\* C35 amended: created_at is kept when the loaded index has metadata; when
\* its metadata is empty (the document had no "meta"), created_at is the
\* time of this update; updated_at, operation and errors as stated.
C35_UpdateKeepsCreatedAtOfMeta ==
    [][\A e \in Executors :
          WritesUpdateMeta(e)
              => /\ meta'[1].created_at =
                       IF meta[1] # EmptyMeta THEN meta[1].created_at ELSE Some(clock)
                 /\ RefreshedByUpdate(e)]_vars

\* an update() of the index of the earlier build returned: created_at is
\* that build's, updated_at is later, and the only error is this update's
C35_Witness ==
    \E e \in Executors :
        /\ Incremental(e)
        /\ op[e].pc = "returned"
        /\ op[e].ret[1].meta.created_at = Some(0)
        /\ op[e].ret[1].meta.updated_at # Some(0)
        /\ op[e].ret[1].meta.operation = "update"
        /\ op[e].ret[1].meta.errors =
              <<[path |-> "lib/b.jpg", message |-> "UnidentifiedImageError"]>>

Answered == query # None /\ IsLoaded /\ query[1].top_k >= 0

\* C8: for a loaded index, any query hash and any top_k >= 0, the matches are
\* in order of non-decreasing distance and there are at most top_k of them.
C8_SortedAndBounded ==
    Answered
        => LET m == query[1].matches
           IN  /\ \A i \in 1 .. Len(m) - 1 : m[i].distance <= m[i + 1].distance
               /\ Len(m) <= query[1].top_k

\* fewer matches than entries were returned, at more than one distance, from
\* an index that does not hold them in order of distance
C8_Witness ==
    /\ Answered
    /\ Len(query[1].matches) = query[1].top_k
    /\ query[1].top_k < Len(items[1])
    /\ \E i, j \in DOMAIN query[1].matches :
          query[1].matches[i].distance < query[1].matches[j].distance
    /\ \E i, j \in DOMAIN items[1] :
          /\ i < j
          /\ ComputeDistance(query[1].query_hash, items[1][i].hash)
               > ComputeDistance(query[1].query_hash, items[1][j].hash)

\* C9: for an index of N entries the matches are exactly min(top_k, N), each
\* the id, path and distance of an entry, no entry twice; no entry left out
\* is nearer than a returned one; matches equally far are in the order the
\* index holds them.
C9_NearestInStableOrder ==
    Answered
        => LET m == query[1].matches
               its == items[1]
               q == query[1].query_hash
               Pos(r) == CHOOSE j \in DOMAIN its : its[j].image_id = r.id
               returned == {m[i].id : i \in DOMAIN m}
           IN  /\ Len(m) = (IF query[1].top_k <= Len(its) THEN query[1].top_k ELSE Len(its))
               /\ \A i \in DOMAIN m :
                     \E j \in DOMAIN its :
                        /\ m[i].id = its[j].image_id
                        /\ m[i].path = its[j].path
                        /\ m[i].distance = ComputeDistance(q, its[j].hash)
               /\ \A i, k \in DOMAIN m : i # k => m[i].id # m[k].id
               /\ \A i \in DOMAIN m, j \in DOMAIN its :
                     its[j].image_id \notin returned
                        => m[i].distance <= ComputeDistance(q, its[j].hash)
               /\ \A i, k \in DOMAIN m :
                     (i < k /\ m[i].distance = m[k].distance) => Pos(m[i]) < Pos(m[k])

\* two entries equally far were both returned while a farther entry that
\* precedes them in the index was cut off
C9_Witness ==
    /\ Answered
    /\ Len(query[1].matches) < Len(items[1])
    /\ \E i, k \in DOMAIN query[1].matches :
          i # k /\ query[1].matches[i].distance = query[1].matches[k].distance
    /\ ComputeDistance(query[1].query_hash, items[1][1].hash)
         > query[1].matches[Len(query[1].matches)].distance

====
